---- MODULE Spec2Model ----
(***************************************************************************)
(* EchoArb ingestion engine: exchange connectors (frame parsing, price     *)
(* derivation, deduplication), the dispatch channel, the publisher and the *)
(* retry controller.                                                       *)
(*                                                                         *)
(* Prices are kept in units of 1/200 (half a cent): the Kalshi cents       *)
(* fields are whole numbers, so (yes_bid + yes_ask) / 200.0 is the         *)
(* integer yes_bid + yes_ask in this unit and x / 100.0 is 2 * x.  Both    *)
(* float divisions are correctly rounded, so two floats of the code are    *)
(* equal exactly when the two integers here are equal.                     *)
(*                                                                         *)
(* A field that is absent from a frame reads as the zero value, as the     *)
(* code's  v, _ := m["k"].(T)  does.                                       *)
(***************************************************************************)
EXTENDS Integers, Sequences, FiniteSets, TLC

VARIABLES
    active,      \* the connectors that run in this behaviour
    pc,          \* pc[c]: position of connector c
    conn,        \* conn[c]: state of c's WebSocket transport
    nread,       \* nread[c]: frames read so far by c's read loop
    lastPrices,  \* lastPrices[c]: the last-price cache (contract -> price)
    pending,     \* pending[c]: the tick c is sending into the channel
    lastFrame,   \* lastFrame[c]: the frame c processed last
    lastOut,     \* lastOut[c]: what processing that frame did
    dupCount,    \* dupCount[c]: duplicate counter recorded by c
    errCount,    \* errCount[c]: error counter recorded by c
    run,         \* run[c][id]: the current run of equal-price frames
    isConnected, \* isConnected[c]: the field read by IsConnected()
    connGauge,   \* connGauge[c]: the gauge ConnectionStatus of c's source
    lastErr,     \* lastErr[c]: how c's last attempt ended, "none" while up
    subFailed,   \* subFailed[c]: a subscribe command of this attempt failed
    msgChan,     \* the dispatch channel's buffer
    stream,      \* entries appended to the stream market_ticks
    topics,      \* messages published on the fan-out topics
    pubErrs,     \* publish errors recorded by processTicks
    sentLog,     \* every tick whose channel send completed, in order
    recvLog,     \* every tick processTicks received, in order
    rcfg,        \* retry.Config given to RetryForever
    rpc,         \* position of RetryForever
    interval,    \* RetryForever's local variable interval
    attempt,     \* RetryForever's local variable attempt
    waits,       \* the waits slept since the start or the last success
    cancelled,   \* ctx is cancelled
    failedBefore,\* failures in a row that the last success of fn ended
    cbCfg,       \* threshold and timeout given to NewCircuitBreaker
    cb,          \* the CircuitBreaker's fields state, failures, lastFail
    now,         \* the clock read by time.Now and time.Since
    cbLog,       \* the last call on the breaker and the failures recorded
    deadline,    \* read deadline of the session's transport
    nextPing,    \* next tick of the ping loop's ticker
    pongAt,      \* arrival time of the pong in flight, NoTime without one
    unanswered,  \* a ping of this session got no pong
    hdr,         \* the signed headers generated last
    dialed,      \* the headers given to the last Dial, and when
    proc,        \* position of main
    keyOk,       \* the signing key file can be read and parsed
    acon,        \* the connector whose connection attempts are followed
    catalog,     \* the exchange's open markets, in blocks of 500
    apc,         \* position of the attempt
    resolved,    \* identifiers returned by fetchActiveMarkets
    subIdx,      \* turns of the subscribe loop done
    subSent,     \* identifiers whose subscribe command was written
    cur,         \* the transport dialed by this attempt, 0 before the dial
    openT,       \* transports that are open
    loopsOn,     \* transports a read loop is reading
    aerr,        \* the error the attempt returned
    fetchRes,    \* how the discovery request of this attempt ended
    nAtt,        \* attempts made before this one
    aframes,     \* frames the read loop of this attempt processed
    dials,       \* transports dialed so far
    tickIn,      \* the tick given to PublishTick
    wire,        \* the stream entry's field data
    tickOut,     \* the tick returned by GetLatestTicks
    hsock,       \* hsock[i]: readyState of the i-th WebSocket made
    wsRef,       \* wsRef.current, 0 for null
    reconnectAttempts,   \* reconnectAttemptsRef.current
    reconnectTimeoutRef, \* reconnectTimeoutRef.current, 0 for null
    timers,      \* timers set and neither fired nor cleared
    timerSeq,    \* timers set so far
    shouldConnect,       \* shouldConnectRef.current
    manual       \* calls of reconnect() and disconnect() so far

connVars  == <<active, pc, conn, nread, lastPrices, pending, lastFrame,
               lastOut, dupCount, errCount, run, isConnected, connGauge,
               lastErr, subFailed>>
pipeVars  == <<msgChan, stream, topics, pubErrs, sentLog, recvLog>>
retryVars == <<rcfg, rpc, interval, attempt, waits, cancelled, failedBefore>>
breakerVars == <<cbCfg, cb, now, cbLog>>
sessVars  == <<deadline, nextPing, pongAt, unanswered, hdr, dialed>>
mainVars  == <<proc, keyOk>>
attVars   == <<acon, catalog, apc, resolved, subIdx, subSent, cur, openT,
               loopsOn, aerr, fetchRes, nAtt, aframes, dials>>
codecVars == <<tickIn, wire, tickOut>>
hookVars  == <<hsock, wsRef, reconnectAttempts, reconnectTimeoutRef, timers,
               timerSeq, shouldConnect, manual>>
extVars   == <<attVars, codecVars, hookVars>>
vars      == <<connVars, pipeVars, retryVars, breakerVars, sessVars, mainVars,
               extVars>>

----------------------------------------------------------------------------
(* Bounds of the model *)

\* buffer of the dispatch channel (main.go makes it with 1000 entries)
ChanCap == 2
\* frames each connector reads in the channel pipeline
MaxPipeFrames == 2
\* frames a connector reads when every frame shape is enumerated
MaxFrames == 2
\* consecutive failures of the function wrapped by RetryForever
MaxFails == 4
\* value of the circuit breaker's failure counter
MaxFailures == 4
\* last instant of a keepalive session's clock, in units of 10 s
MaxSessionTime == 10
\* errors counted by a connector in a keepalive session
MaxAttempts == 2
\* frames each connector reads between startup and shutdown of main
MaxMainFrames == 1
\* last instant of the circuit breaker's clock
MaxClock == 4
\* blocks of 500 open markets in the exchange's catalog
MaxMarkets == 3
\* frames the read loop of one attempt processes
MaxServed == 1
\* WebSockets the hook makes
MaxSockets == 3
\* calls of reconnect() and disconnect() by the component
MaxManual == 2
\* the hook's option maxReconnectAttempts (10 when not given)
maxReconnectAttempts == 2

\* one price unit is 1/PriceScale
PriceScale == 200

\* keepalive of part_007 and polymarket.go, in units of 10 s
polyPingInterval == 3
polyPongTimeout == 6

\* page sizes of the discovery requests, in blocks of 500 markets
kalshiLimit == 2
polyChanLimit == 1
polyMaxFetchLimit == 1

\* no time: no pong in flight, no headers generated, no dial made
NoTime == 0 - 1

Min(a, b) == IF a <= b THEN a ELSE b

\* Go's conversion of a float to an integer truncates toward zero
Trunc(a, b) == IF a >= 0 THEN a \div b ELSE 0 - ((0 - a) \div b)

----------------------------------------------------------------------------
(* Connectors *)

ChanConnectors   == {"KALSHI", "POLYMARKET"}          \* kalshi.go, part_008
DirectConnectors == {"KALSHI_DIRECT", "POLY_DIRECT"}  \* part_007, polymarket.go
Connectors       == ChanConnectors \cup DirectConnectors

IsKalshi(c) == c \in {"KALSHI", "KALSHI_DIRECT"}

Source(c) == IF IsKalshi(c) THEN "KALSHI" ELSE "POLYMARKET"

Contracts == {"M1", "M2"}

----------------------------------------------------------------------------
(* Frames.  valid: the bytes are JSON; msg: the envelope has a nested msg  *)
(* object (Kalshi); id: market_ticker / ticker / asset_id; id2: token_id;  *)
(* bid, ask, price in cents for Kalshi; price, mid in price units for      *)
(* Polymarket.                                                             *)

Frame(valid, type, msg, id, id2, bid, ask, price, mid) ==
    [valid |-> valid, type |-> type, msg |-> msg, id |-> id, id2 |-> id2,
     bid |-> bid, ask |-> ask, price |-> price, mid |-> mid]

NoFrame == Frame(FALSE, "", FALSE, "", "", 0, 0, 0, 0)

KalshiType(c) == IF c = "KALSHI" THEN "ticker" ELSE "orderbook_delta"

KalshiFrames(c) ==
    {Frame(TRUE, KalshiType(c), TRUE, id, "", b, a, p, 0) :
        id \in Contracts, b \in {0, 40}, a \in {0, 42, 55}, p \in {0, 41}}
    \cup {Frame(TRUE, KalshiType(c), TRUE, "M1", "", 99, 99, 0, 0),
          Frame(TRUE, KalshiType(c), TRUE, "", "", 40, 42, 0, 0),
          Frame(TRUE, KalshiType(c), FALSE, "", "", 0, 0, 0, 0),
          Frame(TRUE, "subscribed", TRUE, "M1", "", 40, 42, 0, 0),
          NoFrame}

PolyFrames ==
    {Frame(TRUE, t, FALSE, id, "", 0, 0, p, 0) :
        t \in {"price_update", "book_update", "trade"},
        id \in Contracts, p \in {0, 100, 110}}
    \cup {Frame(TRUE, "price_update", FALSE, id, "", 0, 0, 0, 100) :
        id \in Contracts}
    \cup {Frame(TRUE, t, FALSE, "", id2, 0, 0, 110, 0) :
        t \in {"price_update", "trade"}, id2 \in {"", "M1"}}
    \cup {Frame(TRUE, "price_update", FALSE, "M1", "", 0, 0, 220, 0),
          Frame(TRUE, "subscribed", FALSE, "M1", "", 0, 0, 110, 0),
          NoFrame}

Frames(c) == IF IsKalshi(c) THEN KalshiFrames(c) ELSE PolyFrames

\* the frames of the channel pipeline
PipeFrames(c) ==
    IF c = "KALSHI"
    THEN {Frame(TRUE, "ticker", TRUE, "M1", "", 40, 42, 0, 0),
          Frame(TRUE, "ticker", TRUE, "M1", "", 0, 55, 0, 0),
          Frame(TRUE, "ticker", TRUE, "M2", "", 40, 42, 0, 0)}
    ELSE {Frame(TRUE, "price_update", FALSE, "M1", "", 0, 0, 100, 0),
          Frame(TRUE, "trade", FALSE, "M1", "", 0, 0, 110, 0)}

----------------------------------------------------------------------------
(* Ticks.  seq is the index of the source frame in its connector's read    *)
(* loop; it stands for the tick's identity (ts_ingest in the code).        *)

Tick(c, id, price, seq) ==
    [conn |-> c, source |-> Source(c), contract |-> id, price |-> price,
     seq |-> seq]

NoTick == [conn |-> "", source |-> "", contract |-> "", price |-> 0, seq |-> 0]

\* Tick.Validate
Validate(t) ==
    /\ t.source # ""
    /\ t.contract # ""
    /\ t.price >= 0
    /\ t.price <= PriceScale

\* sync.Map Load / Store on a last-price cache
Cached(cache, id, price) == id \in DOMAIN cache /\ cache[id] = price

Store(cache, id, price) ==
    [k \in DOMAIN cache \cup {id} |-> IF k = id THEN price ELSE cache[k]]

----------------------------------------------------------------------------
(* What processing one frame did.  kind: "ignored" (the frame is skipped   *)
(* before a price is derived), "dup" (suppressed by deduplication),        *)
(* "emit" (a Tick was built and handed to the channel or to PublishTick).  *)
(* errs and dups are the increments of the error and duplicate counters.   *)

Outcome(kind, id, price, cache, errs, dups, published) ==
    [kind |-> kind, id |-> id, price |-> price, cache |-> cache,
     errs |-> errs, dups |-> dups, published |-> published]

\* a skipped frame that empties the last-price cache
SkippedClearsCache(cache, errs) ==
    Outcome("ignored", "", 0, <<>>, errs, 0, FALSE)

Skipped(cache, errs) == Outcome("ignored", "", 0, cache, errs, 0, FALSE)

NoOutcome == [kind |-> "none", id |-> "", price |-> 0, errs |-> 0,
              dups |-> 0, published |-> FALSE, wasCached |-> FALSE,
              cacheChanged |-> FALSE]

\* a PublishTick that does not validate
PublishUnchecked(t, redisOk) == redisOk

\* Client.PublishTick returns nil: the tick is valid and the pipeline ran
PublishOk(t, redisOk) == Validate(t) /\ redisOk

\* one topic for every contract
TopicShared(id) == <<"tick:", "">>

\* channel := fmt.Sprintf("%s%s", PubSubPrefix, tick.ContractID)
Topic(id) == <<"tick:", id>>

\* the priority order kalshi.go would follow with the last price first
KalshiPriceLastFirst(f) ==
    IF f.price > 0 THEN 2 * f.price
    ELSE IF f.bid > 0 /\ f.ask > 0 THEN f.bid + f.ask
    ELSE IF f.bid > 0 THEN 2 * f.bid
    ELSE IF f.ask > 0 THEN 2 * f.ask
    ELSE 0

\* kalshi.go: the canonical price of a ticker frame; 0 when the code returns
KalshiPrice(f) ==
    IF f.bid > 0 /\ f.ask > 0 THEN f.bid + f.ask
    ELSE IF f.price > 0 THEN 2 * f.price
    ELSE IF f.bid > 0 THEN 2 * f.bid
    ELSE IF f.ask > 0 THEN 2 * f.ask
    ELSE 0

\* kalshi.go: processMessage up to the channel send
KalshiProcess(f, cache) ==
    IF ~f.valid THEN Skipped(cache, 0)
    ELSE IF f.type # "ticker" THEN Skipped(cache, 0)
    ELSE IF ~f.msg THEN Skipped(cache, 0)
    ELSE IF f.id = "" THEN Skipped(cache, 0)
    ELSE IF ~(f.bid > 0 \/ f.price > 0 \/ f.ask > 0) THEN Skipped(cache, 0)
    ELSE IF Cached(cache, f.id, KalshiPrice(f))
         THEN Outcome("dup", f.id, KalshiPrice(f), cache, 0, 0, FALSE)
    ELSE Outcome("emit", f.id, KalshiPrice(f),
                 Store(cache, f.id, KalshiPrice(f)), 0, 0, FALSE)

\* part_008: processMessage up to the channel send
PolyChanProcess(f, cache) ==
    LET assetID == IF f.id # "" THEN f.id ELSE f.id2 IN
    IF ~f.valid THEN Skipped(cache, 0)
    ELSE IF f.type \notin {"price_update", "book_update", "trade"}
         THEN Skipped(cache, 0)
    ELSE IF assetID = "" THEN Skipped(cache, 0)
    ELSE IF f.price = 0 THEN Skipped(cache, 0)
    ELSE IF Cached(cache, assetID, f.price)
         THEN Outcome("dup", assetID, f.price, cache, 0, 0, FALSE)
    ELSE Outcome("emit", assetID, f.price, Store(cache, assetID, f.price),
                 0, 0, FALSE)

\* part_007: the mid-price of an orderbook_delta frame
KalshiDirectPrice(f) == f.bid + f.ask

\* part_007: processMessage, with the error counting of its readLoop
KalshiDirectProcess(c, f, cache, seq, redisOk) ==
    LET price == KalshiDirectPrice(f) IN
    IF ~f.valid THEN Skipped(cache, 1)
    ELSE IF f.type # "orderbook_delta" THEN Skipped(cache, 0)
    ELSE IF f.id = "" THEN Skipped(cache, 1)
    ELSE IF Cached(cache, f.id, price)
         THEN Outcome("dup", f.id, price, cache, 0, 1, FALSE)
    ELSE IF PublishOk(Tick(c, f.id, price, seq), redisOk)
         THEN Outcome("emit", f.id, price, Store(cache, f.id, price), 0, 0, TRUE)
    ELSE Outcome("emit", f.id, price, Store(cache, f.id, price), 2, 0, FALSE)

\* polymarket.go: processPriceUpdate
ProcessPriceUpdate(c, f, cache, seq, redisOk) ==
    LET assetID == IF f.id # "" THEN f.id ELSE f.id2
        price   == IF f.price = 0 THEN f.mid ELSE f.price
    IN
    IF assetID = "" THEN Skipped(cache, 1)
    ELSE IF Cached(cache, assetID, price)
         THEN Outcome("dup", assetID, price, cache, 0, 1, FALSE)
    ELSE IF PublishOk(Tick(c, assetID, price, seq), redisOk)
         THEN Outcome("emit", assetID, price, Store(cache, assetID, price),
                      0, 0, TRUE)
    ELSE Outcome("emit", assetID, price, Store(cache, assetID, price),
                 2, 0, FALSE)

\* polymarket.go: processTradeUpdate
ProcessTradeUpdate(c, f, cache, seq, redisOk) ==
    IF f.id = "" \/ f.price = 0 THEN Skipped(cache, 0)
    ELSE IF PublishOk(Tick(c, f.id, f.price, seq), redisOk)
         THEN Outcome("emit", f.id, f.price, Store(cache, f.id, f.price),
                      0, 0, TRUE)
    ELSE Outcome("emit", f.id, f.price, Store(cache, f.id, f.price),
                 1, 0, FALSE)

\* polymarket.go: processMessage, with the error counting of its readLoop
PolyDirectProcess(c, f, cache, seq, redisOk) ==
    IF ~f.valid THEN Skipped(cache, 1)
    ELSE IF f.type \in {"price_update", "book_update"}
         THEN ProcessPriceUpdate(c, f, cache, seq, redisOk)
    ELSE IF f.type = "trade"
         THEN ProcessTradeUpdate(c, f, cache, seq, redisOk)
    ELSE Skipped(cache, 0)

ChanProcess(c, f, cache) ==
    IF c = "KALSHI" THEN KalshiProcess(f, cache) ELSE PolyChanProcess(f, cache)

DirectProcess(c, f, cache, seq, redisOk) ==
    IF c = "KALSHI_DIRECT"
    THEN KalshiDirectProcess(c, f, cache, seq, redisOk)
    ELSE PolyDirectProcess(c, f, cache, seq, redisOk)

----------------------------------------------------------------------------
(* Bookkeeping of runs: a run is a maximal sequence of consecutive frames  *)
(* of one connector and contract that resolve to the same price.           *)

NoRun == [price |-> 0, len |-> 0, emits |-> 0, dups |-> 0]

NextRun(r, out) ==
    IF out.kind \notin {"dup", "emit"} THEN r
    ELSE [r EXCEPT ![out.id] =
            IF r[out.id].len > 0 /\ r[out.id].price = out.price
            THEN [price |-> out.price, len |-> r[out.id].len + 1,
                  emits |-> r[out.id].emits + (IF out.kind = "emit" THEN 1 ELSE 0),
                  dups |-> r[out.id].dups + out.dups]
            ELSE [price |-> out.price, len |-> 1,
                  emits |-> (IF out.kind = "emit" THEN 1 ELSE 0),
                  dups |-> out.dups]]

Report(out, cache) ==
    [kind |-> out.kind, id |-> out.id, price |-> out.price, errs |-> out.errs,
     dups |-> out.dups, published |-> out.published,
     wasCached |-> Cached(cache, out.id, out.price),
     cacheChanged |-> (out.cache # cache)]

----------------------------------------------------------------------------
(* Connectors that send into the dispatch channel (kalshi.go, part_008)    *)

\* how connect() can end; "sub_err": a WriteJSON of subscribe failed
StartResults(c) ==
    IF c = "KALSHI"
    THEN {"auth_err", "fetch_err", "dial_err", "sub_err", "ok"}
    ELSE {"dial_err", "fetch_err", "sub_err", "ok"}

\* the subscribe loop of kalshi.go and part_008 skips a failed write
\* (continue) and returns nil
SubscribeResult(r) == IF r = "sub_err" THEN "ok" ELSE r

\* headers that are generated once and kept
CachedHeaders(h, t) == IF h.ts = NoTime THEN [ts |-> t] ELSE h

\* KalshiAuth.GenerateHeaders: timestamp := time.Now().UnixMilli()
GenerateHeaders(h, t) == [ts |-> t]

\* the outcomes of connect told apart in the channel pipeline: a skipped
\* subscribe write leaves the session as a successful one does
PipeStartResults(c) == StartResults(c) \ {"sub_err"}

\* Start -> connect: headers, discovery, dial, subscribe, go readLoop.
\* part_008 dials before discovery and leaves the transport open when
\* discovery fails.
Start(c, R) ==
    /\ c \in ChanConnectors
    /\ pc[c] = "init"
    /\ \E r \in R :
        LET ret == SubscribeResult(r)
            h   == GenerateHeaders(hdr, now)
        IN
        /\ pc' = [pc EXCEPT ![c] = IF ret = "ok" THEN "read" ELSE "failed"]
        /\ conn' = [conn EXCEPT ![c] =
                      IF ret = "ok" \/ (c = "POLYMARKET" /\ r = "fetch_err")
                      THEN "open" ELSE "none"]
        /\ lastErr' = [lastErr EXCEPT ![c] =
                         IF ret = "ok" THEN "none" ELSE ret]
        /\ subFailed' = [subFailed EXCEPT ![c] = (r = "sub_err")]
        /\ hdr' = IF c = "KALSHI" /\ r # "auth_err" THEN h ELSE hdr
        /\ dialed' = IF c = "KALSHI" /\ r \in {"dial_err", "sub_err", "ok"}
                     THEN [ts |-> h.ts, at |-> now]
                     ELSE dialed
    /\ UNCHANGED <<active, isConnected, connGauge, nread, lastPrices, pending,
                   lastFrame, lastOut, dupCount, errCount, run, pipeVars,
                   retryVars, breakerVars, deadline, nextPing, pongAt,
                   unanswered, mainVars,
                 extVars>>

\* readLoop: ReadMessage returns a frame, processMessage runs up to the
\* channel send
ReadFrame(c, F, max) ==
    /\ c \in ChanConnectors
    /\ pc[c] = "read"
    /\ nread[c] < max
    /\ \E f \in F :
        LET out == ChanProcess(c, f, lastPrices[c]) IN
        /\ nread' = [nread EXCEPT ![c] = nread[c] + 1]
        /\ lastFrame' = [lastFrame EXCEPT ![c] = f]
        /\ lastOut' = [lastOut EXCEPT ![c] = Report(out, lastPrices[c])]
        /\ lastPrices' = [lastPrices EXCEPT ![c] = out.cache]
        /\ dupCount' = [dupCount EXCEPT ![c] = dupCount[c] + out.dups]
        /\ errCount' = [errCount EXCEPT ![c] = errCount[c] + out.errs]
        /\ run' = [run EXCEPT ![c] = NextRun(run[c], out)]
        /\ IF out.kind = "emit"
           THEN /\ pc' = [pc EXCEPT ![c] = "send"]
                /\ pending' = [pending EXCEPT ![c] =
                                 Tick(c, out.id, out.price, nread[c] + 1)]
           ELSE UNCHANGED <<pc, pending>>
    /\ UNCHANGED <<active, isConnected, connGauge, lastErr, subFailed, conn, pipeVars, retryVars, breakerVars, sessVars, mainVars,
                 extVars>>

\* readLoop: ReadMessage returns an error; the deferred Close runs
ReadError(c) ==
    /\ c \in ChanConnectors
    /\ pc[c] = "read"
    /\ pc' = [pc EXCEPT ![c] = "stopped"]
    /\ conn' = [conn EXCEPT ![c] = "closed"]
    /\ lastErr' = [lastErr EXCEPT ![c] = "read_err"]
    /\ UNCHANGED <<active, isConnected, connGauge, subFailed, nread,
                   lastPrices, pending, lastFrame, lastOut, dupCount,
                   errCount, run, pipeVars, retryVars, breakerVars, sessVars,
                   mainVars,
                 extVars>>

\* a channel with a LIFO buffer
ChanPutFront(ch, t) == <<t>> \o ch

\* the buffered channel: a send appends at the tail
ChanPut(ch, t) == Append(ch, t)

\* a channel whose send never blocks
CanSendAlways(ch) == TRUE

\* a send on the buffered channel proceeds only while the buffer has room
CanSend(ch) == Len(ch) < ChanCap

\* k.msgChan <- tick completes once the buffer has room
SendTick(c) ==
    /\ c \in ChanConnectors
    /\ pc[c] = "send"
    /\ CanSend(msgChan)
    /\ msgChan' = ChanPut(msgChan, pending[c])
    /\ sentLog' = Append(sentLog, pending[c])
    /\ pc' = [pc EXCEPT ![c] = "read"]
    /\ pending' = [pending EXCEPT ![c] = NoTick]
    /\ UNCHANGED <<active, isConnected, connGauge, lastErr, subFailed, conn, nread, lastPrices, lastFrame, lastOut,
                   dupCount, errCount, run, stream, topics, pubErrs, recvLog,
                   retryVars, breakerVars, sessVars, mainVars,
                 extVars>>

\* PublishTick's two pipelined writes
StreamAfter(t, redisOk) ==
    IF PublishOk(t, redisOk) THEN Append(stream, t) ELSE stream

TopicsAfter(t, redisOk) ==
    IF PublishOk(t, redisOk)
    THEN Append(topics, [topic |-> Topic(t.contract), data |-> t])
    ELSE topics

\* a processTicks that returns at the first publish error
ProcessTicksStopsOnError ==
    /\ Len(msgChan) > 0
    /\ pubErrs = 0
    /\ \E redisOk \in BOOLEAN :
        LET t == Head(msgChan) IN
        /\ msgChan' = Tail(msgChan)
        /\ recvLog' = Append(recvLog, t)
        /\ stream' = StreamAfter(t, redisOk)
        /\ topics' = TopicsAfter(t, redisOk)
        /\ pubErrs' = pubErrs + (IF PublishOk(t, redisOk) THEN 0 ELSE 1)
    /\ UNCHANGED <<connVars, sentLog, retryVars, breakerVars, sessVars,
                   mainVars,
                 extVars>>

\* processTicks: one iteration of  for tick := range ch
ProcessTicks ==
    /\ Len(msgChan) > 0
    /\ \E redisOk \in BOOLEAN :
        LET t == Head(msgChan) IN
        /\ msgChan' = Tail(msgChan)
        /\ recvLog' = Append(recvLog, t)
        /\ stream' = StreamAfter(t, redisOk)
        /\ topics' = TopicsAfter(t, redisOk)
        /\ pubErrs' = pubErrs + (IF PublishOk(t, redisOk) THEN 0 ELSE 1)
    /\ UNCHANGED <<connVars, sentLog, retryVars, breakerVars, sessVars, mainVars,
                 extVars>>

----------------------------------------------------------------------------
(* Connectors that publish directly (part_007, polymarket.go)              *)

\* how connect() can end before its read loop; "sub_err": discovery fails
\* or a WriteJSON of subscribe fails
ConnectResults(c) ==
    IF c = "KALSHI_DIRECT" THEN {"auth_err", "dial_err", "sub_err", "ok"}
    ELSE {"dial_err", "sub_err", "ok"}

\* a pong moves the deadline by less than one ping interval
PongDeadlineShort(t) == t + polyPingInterval - 1

\* conn.SetReadDeadline(time.Now().Add(polyPongTimeout))
PongDeadline(t) == t + polyPongTimeout

\* connect: headers (part_007), dial, RecordConnection, setConnected(true),
\* subscribe, go pingLoop, and readLoop's first statements; an error
\* returns to RetryForever, which calls connect again after its wait
ConnectDirect(c, max) ==
    /\ c \in DirectConnectors
    /\ pc[c] = "init"
    /\ \E r \in ConnectResults(c) :
        LET h == GenerateHeaders(hdr, now) IN
        /\ r \in {"auth_err", "dial_err"} => errCount[c] < max
        /\ pc' = [pc EXCEPT ![c] = IF r = "ok" THEN "read" ELSE "init"]
        /\ conn' = [conn EXCEPT ![c] =
                      IF r = "ok" THEN "open"
                      ELSE IF r = "sub_err" THEN "closed"
                      ELSE conn[c]]
        /\ errCount' = [errCount EXCEPT ![c] =
                          errCount[c]
                            + (IF r \in {"auth_err", "dial_err"} THEN 1 ELSE 0)]
        /\ connGauge' = [connGauge EXCEPT ![c] =
                           IF r \in {"ok", "sub_err"} THEN 1
                           ELSE IF r = "dial_err" THEN 0
                           ELSE connGauge[c]]
        /\ isConnected' = [isConnected EXCEPT ![c] =
                             IF r \in {"ok", "sub_err"} THEN TRUE
                             ELSE isConnected[c]]
        /\ lastErr' = [lastErr EXCEPT ![c] = IF r = "ok" THEN "none" ELSE r]
        /\ subFailed' = [subFailed EXCEPT ![c] = (r = "sub_err")]
        /\ hdr' = IF c = "KALSHI_DIRECT" /\ r # "auth_err" THEN h ELSE hdr
        /\ dialed' = IF c = "KALSHI_DIRECT" /\ r # "auth_err"
                     THEN [ts |-> h.ts, at |-> now]
                     ELSE dialed
        /\ deadline' = IF r = "ok" THEN PongDeadline(now) ELSE deadline
        /\ nextPing' = IF r = "ok" THEN now + polyPingInterval ELSE nextPing
        /\ pongAt' = IF r = "ok" THEN NoTime ELSE pongAt
        /\ unanswered' = IF r = "ok" THEN FALSE ELSE unanswered
    /\ UNCHANGED <<active, nread, lastPrices, pending, lastFrame, lastOut,
                   dupCount, run, pipeVars, retryVars, breakerVars, mainVars,
                 extVars>>

\* readLoop: ReadMessage returns a frame, processMessage publishes
ReadFrameDirect(c, F, max) ==
    /\ c \in DirectConnectors
    /\ pc[c] = "read"
    /\ nread[c] < max
    /\ \E f \in F, redisOk \in BOOLEAN :
        LET out == DirectProcess(c, f, lastPrices[c], nread[c] + 1, redisOk)
            t   == Tick(c, out.id, out.price, nread[c] + 1)
        IN
        /\ nread' = [nread EXCEPT ![c] = nread[c] + 1]
        /\ lastFrame' = [lastFrame EXCEPT ![c] = f]
        /\ lastOut' = [lastOut EXCEPT ![c] = Report(out, lastPrices[c])]
        /\ lastPrices' = [lastPrices EXCEPT ![c] = out.cache]
        /\ dupCount' = [dupCount EXCEPT ![c] = dupCount[c] + out.dups]
        /\ errCount' = [errCount EXCEPT ![c] = errCount[c] + out.errs]
        /\ run' = [run EXCEPT ![c] = NextRun(run[c], out)]
        /\ stream' = IF out.kind = "emit" THEN StreamAfter(t, redisOk)
                     ELSE stream
        /\ topics' = IF out.kind = "emit" THEN TopicsAfter(t, redisOk)
                     ELSE topics
    /\ UNCHANGED <<active, isConnected, connGauge, lastErr, subFailed, pc, conn, pending, msgChan, pubErrs, sentLog,
                   recvLog, retryVars, breakerVars, sessVars, mainVars,
                 extVars>>

\* how readLoop's error return leaves the connector: RecordError, the
\* deferred setConnected(false), connect's deferred Close
ReadLoopFails(c, err) ==
    /\ pc' = [pc EXCEPT ![c] = "init"]
    /\ conn' = [conn EXCEPT ![c] = "closed"]
    /\ errCount' = [errCount EXCEPT ![c] = errCount[c] + 1]
    /\ isConnected' = [isConnected EXCEPT ![c] = FALSE]
    /\ connGauge' = [connGauge EXCEPT ![c] = 0]
    /\ lastErr' = [lastErr EXCEPT ![c] = err]

\* readLoop: ReadMessage returns an error
ReadErrorDirect(c, max) ==
    /\ c \in DirectConnectors
    /\ pc[c] = "read"
    /\ errCount[c] < max
    /\ ReadLoopFails(c, "read_err")
    /\ UNCHANGED <<active, subFailed, nread, lastPrices, pending, lastFrame,
                   lastOut, dupCount, run, pipeVars, retryVars, breakerVars,
                   sessVars, mainVars,
                 extVars>>

----------------------------------------------------------------------------
(* Keepalive of part_007 and polymarket.go: the ping loop's ticker, the    *)
(* pong handler and the read deadline.  Time is counted in units of 10 s;  *)
(* what is due at an instant happens before the clock moves on.            *)

\* a pong that is sent comes back before the next ping is due
PongDelays == 0 .. polyPingInterval - 1

\* pingLoop, case <-ticker.C: WriteControl of a ping; the write fails (the
\* loop returns), the peer stays silent, or its pong is on the way
PingTick(c) ==
    /\ c \in DirectConnectors
    /\ pc[c] = "read"
    /\ now = nextPing
    /\ \/ /\ nextPing' = NoTime
          /\ unanswered' = TRUE
          /\ UNCHANGED pongAt
       \/ /\ nextPing' = now + polyPingInterval
          /\ unanswered' = TRUE
          /\ UNCHANGED pongAt
       \/ /\ nextPing' = now + polyPingInterval
          /\ \E d \in PongDelays : pongAt' = now + d
          /\ UNCHANGED unanswered
    /\ UNCHANGED <<connVars, pipeVars, retryVars, breakerVars, deadline, hdr,
                   dialed, mainVars,
                 extVars>>

\* the pong handler, run inside ReadMessage
PongArrives(c) ==
    /\ c \in DirectConnectors
    /\ pc[c] = "read"
    /\ pongAt = now
    /\ deadline' = PongDeadline(now)
    /\ pongAt' = NoTime
    /\ UNCHANGED <<connVars, pipeVars, retryVars, breakerVars, nextPing,
                   unanswered, hdr, dialed, mainVars,
                 extVars>>

\* ReadMessage fails at the read deadline; readLoop returns the error
DeadlineExpires(c, max) ==
    /\ c \in DirectConnectors
    /\ pc[c] = "read"
    /\ now >= deadline
    /\ errCount[c] < max
    /\ ReadLoopFails(c, "read_timeout")
    /\ pongAt' = NoTime
    /\ UNCHANGED <<active, subFailed, nread, lastPrices, pending, lastFrame,
                   lastOut, dupCount, run, pipeVars, retryVars, breakerVars,
                   deadline, nextPing, unanswered, hdr, dialed, mainVars,
                 extVars>>

\* 10 s pass
Elapse(c) ==
    /\ now < MaxSessionTime
    /\ pc[c] = "read" =>
          /\ nextPing = NoTime \/ now < nextPing
          /\ pongAt = NoTime \/ now < pongAt
          /\ now < deadline
    /\ now' = now + 1
    /\ UNCHANGED <<cbCfg, cb, cbLog, connVars, pipeVars, retryVars, sessVars,
                   mainVars,
                 extVars>>

----------------------------------------------------------------------------
(* retry.RetryForever.  Durations are whole numbers of a time unit of      *)
(* 125 ms (1 s = 8); the multiplier is a whole number.                     *)

RetryConfigs ==
    {[initial |-> i, max |-> x, mult |-> m, jitter |-> j, maxRetries |-> r] :
        i \in {8, 24}, x \in {24, 80}, m \in {1, 2, 3}, j \in BOOLEAN,
        r \in {0, 2}}

NoRetryConfig ==
    [initial |-> 0, max |-> 0, mult |-> 0, jitter |-> FALSE, maxRetries |-> 0]

\* rand.Float64() returns r / 4 for one of these r
RandQuarters == 0 .. 3

\* the interval grows without the cap
GrowNoCap(iv, cfg) == iv * cfg.mult

\* interval = min(interval * Multiplier, MaxInterval)
Grow(iv, cfg) == Min(iv * cfg.mult, cfg.max)

\* jitter = interval * 0.25 * (2 * rand - 1), with rand = r / 4
Jitter(iv, r) == Trunc(iv * (r - 2), 8)

\* the timer branch of the select: the interval of the next wait
NextInterval(iv, cfg, r) ==
    IF cfg.jitter THEN Grow(iv, cfg) + Jitter(Grow(iv, cfg), r)
    ELSE Grow(iv, cfg)

\* a context whose cancellation the loop does not look at
CtxErrIgnored(c) == FALSE

\* ctx.Err() != nil
CtxErr(c) == c

\* the interval is left as the failures grew it
KeepInterval(iv, cfg) == iv

\* interval = cfg.InitialInterval
ResetInterval(iv, cfg) == cfg.initial

\* top of the loop: ctx.Err() is checked, then fn is called
RetryCheck ==
    /\ rpc = "check"
    /\ rpc' = IF CtxErr(cancelled) THEN "done" ELSE "call"
    /\ UNCHANGED <<rcfg, interval, attempt, waits, cancelled, failedBefore,
                   connVars, pipeVars, breakerVars, sessVars, mainVars,
                 extVars>>

\* fn returns nil: interval and attempt are reset, the loop continues
FnSucceeds ==
    /\ rpc = "call"
    /\ interval' = ResetInterval(interval, rcfg)
    /\ attempt' = 0
    /\ waits' = <<>>
    /\ failedBefore' = Len(waits)
    /\ rpc' = "check"
    /\ UNCHANGED <<rcfg, cancelled, connVars, pipeVars, breakerVars, sessVars, mainVars,
                 extVars>>

\* fn returns an error: the select starts a timer of interval
FnFails ==
    /\ rpc = "call"
    /\ Len(waits) < MaxFails
    /\ waits' = Append(waits, interval)
    /\ rpc' = "wait"
    /\ UNCHANGED <<rcfg, interval, attempt, cancelled, failedBefore,
                   connVars, pipeVars, breakerVars, sessVars, mainVars,
                 extVars>>

\* case <-time.After(interval)
TimerFires ==
    /\ rpc = "wait"
    /\ \E r \in RandQuarters :
        interval' = NextInterval(interval, rcfg, r)
    /\ attempt' = attempt + 1
    /\ rpc' = "check"
    /\ UNCHANGED <<rcfg, waits, cancelled, failedBefore, connVars, pipeVars,
                   breakerVars, sessVars, mainVars,
                 extVars>>

\* case <-ctx.Done()
WaitCancelled ==
    /\ rpc = "wait"
    /\ cancelled
    /\ rpc' = "done"
    /\ UNCHANGED <<rcfg, interval, attempt, waits, cancelled, failedBefore,
                   connVars, pipeVars, breakerVars, sessVars, mainVars,
                 extVars>>

\* the caller cancels ctx
Cancel ==
    /\ rpc # "idle"
    /\ ~cancelled
    /\ cancelled' = TRUE
    /\ UNCHANGED <<rcfg, rpc, interval, attempt, waits, failedBefore,
                   connVars, pipeVars, breakerVars, sessVars, mainVars,
                 extVars>>

----------------------------------------------------------------------------
(* retry.CircuitBreaker.  Allow and RecordResult hold cb.mu from their     *)
(* first to their last statement, so each call is one step, whichever      *)
(* goroutine makes it.  The clock counts whole time units.                 *)

BreakerConfigs ==
    {[threshold |-> n, timeout |-> d] : n \in {1, 2, 3}, d \in {1, 2}}

NoBreakerConfig == [threshold |-> 0, timeout |-> 0]

\* NewCircuitBreaker: state CLOSED, the other fields zero
NewCircuitBreaker == [state |-> "CLOSED", failures |-> 0, lastFail |-> 0]

NoCall ==
    [op |-> "none", val |-> FALSE, pre |-> "CLOSED", due |-> FALSE,
     streak |-> 0, longest |-> 0, failAt |-> 0, failPre |-> "CLOSED"]

\* the timeout counts as elapsed at the instant it ends
ElapsedOrEqual(t, last, timeout) == t - last >= timeout

\* time.Since(cb.lastFail) > cb.timeout
Elapsed(t, last, timeout) == t - last > timeout

\* Allow: the value returned
AllowResult(b, cfg, t) ==
    IF b.state = "OPEN" THEN Elapsed(t, b.lastFail, cfg.timeout) ELSE TRUE

\* Allow: the breaker it leaves
AfterAllow(b, cfg, t) ==
    IF b.state = "OPEN" /\ Elapsed(t, b.lastFail, cfg.timeout)
    THEN [b EXCEPT !.state = "HALF_OPEN"]
    ELSE b

\* a success that closes the circuit without clearing the count
AfterSuccessKeepCount(b) ==
    IF b.state = "HALF_OPEN" THEN [b EXCEPT !.state = "CLOSED"]
    ELSE IF b.state = "CLOSED" THEN [b EXCEPT !.failures = 0]
    ELSE b

\* a success that clears the count only after a trial
AfterSuccessTrialOnly(b) ==
    IF b.state = "HALF_OPEN"
    THEN [b EXCEPT !.state = "CLOSED", !.failures = 0]
    ELSE b

\* a success that closes the circuit from any state
AfterSuccessAnyState(b) == [b EXCEPT !.state = "CLOSED", !.failures = 0]

\* RecordResult(true)
AfterSuccess(b) ==
    IF b.state = "HALF_OPEN"
    THEN [b EXCEPT !.state = "CLOSED", !.failures = 0]
    ELSE IF b.state = "CLOSED" THEN [b EXCEPT !.failures = 0]
    ELSE b

\* a failure that opens the circuit without restarting the timeout of a
\* circuit that was open before
AfterFailureKeepTime(b, cfg, t) ==
    IF b.failures + 1 >= cfg.threshold
    THEN [state |-> "OPEN", failures |-> b.failures + 1,
          lastFail |-> IF b.state = "CLOSED" THEN t ELSE b.lastFail]
    ELSE [b EXCEPT !.failures = b.failures + 1]

\* RecordResult(false)
AfterFailure(b, cfg, t) ==
    IF b.failures + 1 >= cfg.threshold
    THEN [state |-> "OPEN", failures |-> b.failures + 1, lastFail |-> t]
    ELSE [b EXCEPT !.failures = b.failures + 1]

\* some goroutine calls cb.Allow()
Allow ==
    /\ cbCfg # NoBreakerConfig
    /\ cb' = AfterAllow(cb, cbCfg, now)
    /\ cbLog' = [cbLog EXCEPT
                   !.op = "allow",
                   !.val = AllowResult(cb, cbCfg, now),
                   !.pre = cb.state,
                   !.due = (now - cbLog.failAt > cbCfg.timeout)]
    /\ UNCHANGED <<cbCfg, now, connVars, pipeVars, retryVars, sessVars, mainVars,
                 extVars>>

\* some goroutine calls cb.RecordResult(success)
RecordResult ==
    /\ cbCfg # NoBreakerConfig
    /\ \E success \in BOOLEAN :
        /\ success \/ cb.failures < MaxFailures
        /\ cb' = IF success THEN AfterSuccess(cb)
                 ELSE AfterFailure(cb, cbCfg, now)
        /\ cbLog' =
             IF success
             THEN [cbLog EXCEPT !.op = "record", !.val = TRUE,
                                !.pre = cb.state, !.streak = 0]
             ELSE [cbLog EXCEPT !.op = "record", !.val = FALSE,
                                !.pre = cb.state,
                                !.streak = cbLog.streak + 1,
                                !.longest = IF cbLog.streak + 1 > cbLog.longest
                                            THEN cbLog.streak + 1
                                            ELSE cbLog.longest,
                                !.failAt = now,
                                !.failPre = cb.state]
    /\ UNCHANGED <<cbCfg, now, connVars, pipeVars, retryVars, sessVars, mainVars,
                 extVars>>

\* one unit of time passes
ClockTick ==
    /\ cbCfg # NoBreakerConfig
    /\ now < MaxClock
    /\ now' = now + 1
    /\ UNCHANGED <<cbCfg, cb, cbLog, connVars, pipeVars, retryVars, sessVars,
                   mainVars,
                 extVars>>

----------------------------------------------------------------------------
(* main: construction of the connectors, the goroutines, the shutdown      *)

\* a logger call that lets main go on
AfterErrorf == "running"

\* logger.Fatalf in NewKalshiConnector: the process exits
AfterFatalf == "exited"

\* main.go 56-79: NewKalshiConnector loads the key (Fatalf on error), then
\* NewPolymarketConnector, then the goroutines are started
NewConnectors ==
    /\ proc = "starting"
    /\ proc' = IF keyOk THEN "running" ELSE AfterFatalf
    /\ active' = IF proc' = "running" THEN ChanConnectors ELSE active
    /\ UNCHANGED <<pc, conn, nread, lastPrices, pending, lastFrame, lastOut,
                   dupCount, errCount, run, isConnected, connGauge, lastErr,
                   subFailed, pipeVars, retryVars, breakerVars, sessVars,
                   keyOk,
                 extVars>>

\* <-sigChan: main starts its wait of 5 s
Signal ==
    /\ proc = "running"
    /\ proc' = "stopping"
    /\ UNCHANGED <<connVars, pipeVars, retryVars, breakerVars, sessVars,
                   keyOk,
                 extVars>>

\* <-shutdownCtx.Done(): main returns and the process ends
GraceOver ==
    /\ proc = "stopping"
    /\ proc' = "exited"
    /\ UNCHANGED <<connVars, pipeVars, retryVars, breakerVars, sessVars,
                   keyOk,
                 extVars>>

\* the goroutines run from their start by main until the process ends
Alive == proc \in {"running", "stopping"}

----------------------------------------------------------------------------
(* One connection attempt, step by step: market discovery, the transport,  *)
(* the subscribe loop and the read loop.  The exchange's catalog of open   *)
(* markets is a sequence of blocks of 500 markets; the REST endpoint       *)
(* serves it by (offset, limit).                                           *)

DiscoveringConnectors == {"KALSHI", "POLYMARKET", "POLY_DIRECT"}

Catalogs == { [i \in 1 .. n |-> i] : n \in 0 .. MaxMarkets }

\* the page of the catalog the endpoint returns for (offset, limit)
Page(cat, offset, limit) == SubSeq(cat, offset + 1, Min(offset + limit, Len(cat)))

\* kalshi.go: one request with limit=1000, the response's cursor is not read
KalshiFetch(cat) == Page(cat, 0, kalshiLimit)

\* part_008: one request with limit=500
PolyChanFetch(cat) == Page(cat, 0, polyChanLimit)

\* polymarket.go: offset += polyMaxFetchLimit until a page comes back empty
RECURSIVE PolyDirectFetch(_, _)
PolyDirectFetch(cat, offset) ==
    LET page == Page(cat, offset, polyMaxFetchLimit)
    IN  IF page = <<>> THEN <<>>
        ELSE page \o PolyDirectFetch(cat, offset + polyMaxFetchLimit)

fetchActiveMarkets(c, cat) ==
    CASE c = "KALSHI"      -> KalshiFetch(cat)
      [] c = "POLYMARKET"  -> PolyChanFetch(cat)
      [] c = "POLY_DIRECT" -> PolyDirectFetch(cat, 0)

NoMarketsIgnored(ids) == FALSE

\* len(tickers) == 0, len(allTokenIDs) == 0, len(tokenIDs) == 0
NoMarkets(ids) == ids = <<>>

ReturnLeavesOpen(c, open, t) == open

\* defer conn.Close() of the retrying connect; the channel connectors close
\* the transport only when their read loop ends
AfterReturn(c, open, t) == IF c \in DirectConnectors THEN open \ {t} ELSE open

\* kalshi.go signs the headers and discovers before dialing; the
\* Polymarket connectors dial first
FirstStep(c) == IF c = "KALSHI" THEN "headers" ELSE "dial"

\* the attempt returns err to its caller
AttemptReturns(err) ==
    /\ apc' = "returned"
    /\ aerr' = err
    /\ openT' = AfterReturn(acon, openT, cur)

GetHeaders ==
    /\ apc = "headers"
    /\ \E ok \in BOOLEAN :
         IF ok THEN /\ apc' = "fetch"
                    /\ UNCHANGED <<aerr, openT>>
         ELSE AttemptReturns("auth_err")
    /\ UNCHANGED <<acon, catalog, resolved, subIdx, subSent, cur, loopsOn,
                   fetchRes, nAtt, aframes, dials>>
    /\ UNCHANGED <<connVars, pipeVars, retryVars, breakerVars, sessVars,
                   mainVars, codecVars, hookVars>>

DialTransport ==
    /\ apc = "dial"
    /\ \E ok \in BOOLEAN :
         IF ok THEN /\ dials' = dials + 1
                    /\ cur' = dials + 1
                    /\ openT' = openT \cup {dials + 1}
                    /\ apc' = IF acon = "KALSHI" THEN "subscribe" ELSE "fetch"
                    /\ UNCHANGED aerr
         ELSE /\ AttemptReturns("dial_err")
              /\ UNCHANGED <<dials, cur>>
    /\ UNCHANGED <<acon, catalog, resolved, subIdx, subSent, loopsOn,
                   fetchRes, nAtt, aframes>>
    /\ UNCHANGED <<connVars, pipeVars, retryVars, breakerVars, sessVars,
                   mainVars, codecVars, hookVars>>

FetchMarkets ==
    /\ apc = "fetch"
    /\ \E ok \in BOOLEAN :
         LET ids == fetchActiveMarkets(acon, catalog)
         IN  /\ fetchRes' = IF ok THEN "ok" ELSE "fail"
             /\ IF ~ok THEN /\ AttemptReturns("fetch_err")
                            /\ UNCHANGED resolved
                ELSE IF NoMarkets(ids)
                     THEN /\ AttemptReturns("no_markets")
                          /\ UNCHANGED resolved
                ELSE /\ resolved' = ids
                     /\ apc' = IF acon = "KALSHI" THEN "dial" ELSE "subscribe"
                     /\ UNCHANGED <<aerr, openT>>
    /\ UNCHANGED <<acon, catalog, subIdx, subSent, cur, loopsOn, nAtt,
                   aframes, dials>>
    /\ UNCHANGED <<connVars, pipeVars, retryVars, breakerVars, sessVars,
                   mainVars, codecVars, hookVars>>

\* one turn of the subscribe loop: WriteJSON of one subscribe command
SubscribeOne ==
    /\ apc = "subscribe"
    /\ subIdx < Len(resolved)
    /\ \E ok \in BOOLEAN :
         IF ok THEN /\ subSent' = Append(subSent, resolved[subIdx + 1])
                    /\ subIdx' = subIdx + 1
                    /\ UNCHANGED <<apc, aerr, openT>>
         ELSE IF acon \in DirectConnectors
              THEN /\ AttemptReturns("sub_err")
                   /\ UNCHANGED <<subSent, subIdx>>
              ELSE /\ subIdx' = subIdx + 1
                   /\ UNCHANGED <<subSent, apc, aerr, openT>>
    /\ UNCHANGED <<acon, catalog, resolved, cur, loopsOn, fetchRes, nAtt,
                   aframes, dials>>
    /\ UNCHANGED <<connVars, pipeVars, retryVars, breakerVars, sessVars,
                   mainVars, codecVars, hookVars>>

\* the subscribe loop is over: go readLoop() / return readLoop(ctx, conn)
StartReadLoop ==
    /\ apc = "subscribe"
    /\ subIdx = Len(resolved)
    /\ apc' = "read"
    /\ loopsOn' = loopsOn \cup {cur}
    /\ UNCHANGED <<acon, catalog, resolved, subIdx, subSent, cur, openT,
                   aerr, fetchRes, nAtt, aframes, dials>>
    /\ UNCHANGED <<connVars, pipeVars, retryVars, breakerVars, sessVars,
                   mainVars, codecVars, hookVars>>

\* the read loop reads and processes one frame
ServeFrame ==
    /\ apc = "read"
    /\ aframes < MaxServed
    /\ aframes' = aframes + 1
    /\ UNCHANGED <<acon, catalog, apc, resolved, subIdx, subSent, cur, openT,
                   loopsOn, aerr, fetchRes, nAtt, dials>>
    /\ UNCHANGED <<connVars, pipeVars, retryVars, breakerVars, sessVars,
                   mainVars, codecVars, hookVars>>

\* ReadMessage fails: the read loop ends and the transport is closed, by the
\* loop's own defer (kalshi.go, part_008) or by connect's (polymarket.go)
ReadLoopEnds ==
    /\ apc = "read"
    /\ loopsOn' = loopsOn \ {cur}
    /\ openT' = openT \ {cur}
    /\ IF acon \in DirectConnectors
       THEN /\ apc' = "returned"
            /\ aerr' = "read_err"
       ELSE /\ apc' = "ended"
            /\ UNCHANGED aerr
    /\ UNCHANGED <<acon, catalog, resolved, subIdx, subSent, cur, fetchRes,
                   nAtt, aframes, dials>>
    /\ UNCHANGED <<connVars, pipeVars, retryVars, breakerVars, sessVars,
                   mainVars, codecVars, hookVars>>

\* RetryForever calls connect again; main calls Start of a channel
\* connector once
NextAttempt ==
    /\ apc = "returned"
    /\ acon \in DirectConnectors
    /\ nAtt < MaxAttempts
    /\ nAtt' = nAtt + 1
    /\ apc' = FirstStep(acon)
    /\ resolved' = <<>>
    /\ subIdx' = 0
    /\ subSent' = <<>>
    /\ cur' = 0
    /\ aerr' = "none"
    /\ fetchRes' = "none"
    /\ aframes' = 0
    /\ UNCHANGED <<acon, catalog, openT, loopsOn, dials>>
    /\ UNCHANGED <<connVars, pipeVars, retryVars, breakerVars, sessVars,
                   mainVars, codecVars, hookVars>>

\* RetryForever runs fn, the closure around connect (polymarket.go Start)
CallConnect ==
    /\ rpc = "call"
    /\ apc = "idle"
    /\ apc' = FirstStep(acon)
    /\ nAtt' = nAtt + 1
    /\ resolved' = <<>>
    /\ subIdx' = 0
    /\ subSent' = <<>>
    /\ cur' = 0
    /\ aerr' = "none"
    /\ fetchRes' = "none"
    /\ aframes' = 0
    /\ UNCHANGED <<acon, catalog, openT, loopsOn, dials>>
    /\ UNCHANGED <<connVars, pipeVars, retryVars, breakerVars, sessVars,
                   mainVars, codecVars, hookVars>>

\* connect has returned: every return of connect and of readLoop carries an
\* error, so RetryForever takes its err != nil branch and starts the timer
ConnectReturnsError ==
    /\ rpc = "call"
    /\ apc = "returned"
    /\ Len(waits) < MaxAttempts
    /\ waits' = Append(waits, interval)
    /\ rpc' = "wait"
    /\ apc' = "idle"
    /\ UNCHANGED <<rcfg, interval, attempt, cancelled, failedBefore>>
    /\ UNCHANGED <<acon, catalog, resolved, subIdx, subSent, cur, openT,
                   loopsOn, aerr, fetchRes, nAtt, aframes, dials>>
    /\ UNCHANGED <<connVars, pipeVars, breakerVars, sessVars, mainVars,
                   codecVars, hookVars>>

----------------------------------------------------------------------------
(* The tick on the wire: msgpack.Marshal in PublishTick and                *)
(* msgpack.Unmarshal in GetLatestTicks.  A struct is encoded as a map from *)
(* the msgpack tag of each field to its value, in the order of the fields; *)
(* a field tagged omitempty is left out when it holds its zero value, and  *)
(* a key missing from the map leaves the zero value of the new struct.     *)

\* the fields of models.Tick: msgpack key, kind, omitempty
TickFields ==
    << <<"source", "string", FALSE>>,
       <<"contract_id", "string", FALSE>>,
       <<"price", "float", FALSE>>,
       <<"ts_source", "int", FALSE>>,
       <<"ts_ingest", "int", FALSE>>,
       <<"yes_bid", "float", TRUE>>,
       <<"yes_ask", "float", TRUE>>,
       <<"no_bid", "float", TRUE>>,
       <<"no_ask", "float", TRUE>>,
       <<"last_price", "float", TRUE>>,
       <<"bid_size", "float", TRUE>>,
       <<"ask_size", "float", TRUE>>,
       <<"trade_size", "float", TRUE>>,
       <<"volume", "int", TRUE>>,
       <<"open_interest", "int", TRUE>>,
       <<"dollar_volume", "int", TRUE>>,
       <<"dollar_open_interest", "int", TRUE>>,
       <<"trade_side", "string", TRUE>>,
       <<"fee_rate_bps", "float", TRUE>>,
       <<"market_id", "string", TRUE>>,
       <<"market_name", "string", TRUE>>,
       <<"event_type", "string", TRUE>> >>

FieldKeys == { TickFields[i][1] : i \in DOMAIN TickFields }

OptionalKeys ==
    { TickFields[i][1] : i \in { j \in DOMAIN TickFields : TickFields[j][3] } }

FieldAt(k) == TickFields[CHOOSE i \in DOMAIN TickFields : TickFields[i][1] = k]

\* the zero value of a Go string, float64 or int64
Zero(kind) == IF kind = "string" THEN "" ELSE 0

\* var tick models.Tick
ZeroTick == [k \in FieldKeys |-> Zero(FieldAt(k)[2])]

OmitOptional(f, v) == f[3]

\* omitempty
OmitEmpty(f, v) == f[3] /\ v = Zero(f[2])

RECURSIVE EncodeFrom(_, _)
EncodeFrom(t, i) ==
    IF i > Len(TickFields) THEN <<>>
    ELSE LET f == TickFields[i]
         IN  (IF OmitEmpty(f, t[f[1]]) THEN <<>> ELSE << <<f[1], t[f[1]]>> >>)
             \o EncodeFrom(t, i + 1)

\* msgpack.Marshal(tick)
Marshal(t) == EncodeFrom(t, 1)

\* msgpack.Unmarshal([]byte(data), &tick)
Unmarshal(w) ==
    [k \in FieldKeys |->
        IF \E i \in DOMAIN w : w[i][1] = k
        THEN w[CHOOSE i \in DOMAIN w : w[i][1] = k][2]
        ELSE ZeroTick[k]]

\* a non-zero value of each kind; floats are prices or sizes in model units,
\* integers are timestamps (in seconds) or counts
Sample(kind) ==
    CASE kind = "string" -> "YES"
      [] kind = "float"  -> 90
      [] kind = "int"    -> 1700000000

\* the optional fields a tick carries: none, all of them, or one
Populated == {{}, OptionalKeys} \cup { {k} : k \in OptionalKeys }

MakeTick(src, id, price, ts, pop) ==
    [k \in FieldKeys |->
        CASE k = "source"      -> src
          [] k = "contract_id" -> id
          [] k = "price"       -> price
          [] k = "ts_source"   -> ts
          [] k = "ts_ingest"   -> Sample("int") + 5
          [] OTHER -> IF k \in pop THEN Sample(FieldAt(k)[2])
                      ELSE Zero(FieldAt(k)[2])]

TickInputs ==
    { MakeTick(src, id, price, ts, pop) :
        src \in {"KALSHI", "POLYMARKET"}, id \in Contracts,
        price \in {0, 90, PriceScale}, ts \in {0, Sample("int")},
        pop \in Populated }

\* PublishTick: Validate, Marshal, XAdd of the field data
PublishTick ==
    /\ wire = <<>>
    /\ tickIn["source"] # ""
    /\ tickIn["contract_id"] # ""
    /\ tickIn["price"] >= 0
    /\ tickIn["price"] <= PriceScale
    /\ wire' = Marshal(tickIn)
    /\ UNCHANGED <<tickIn, tickOut>>
    /\ UNCHANGED <<connVars, pipeVars, retryVars, breakerVars, sessVars,
                   mainVars, attVars, hookVars>>

\* GetLatestTicks: XRevRangeN, Unmarshal of the field data
GetLatestTicks ==
    /\ wire # <<>>
    /\ tickOut = <<>>
    /\ tickOut' = Append(tickOut, Unmarshal(wire))
    /\ UNCHANGED <<tickIn, wire>>
    /\ UNCHANGED <<connVars, pipeVars, retryVars, breakerVars, sessVars,
                   mainVars, attVars, hookVars>>

----------------------------------------------------------------------------
(* The dashboard's useWebSocket hook.  Its callbacks run one at a time on  *)
(* the browser's event loop; the events of a WebSocket (open, close) are   *)
(* delivered to the handlers the hook attached to that socket, whether or  *)
(* not wsRef still points to it.                                           *)

\* sockets that are connecting or open
LiveSockets == { i \in DOMAIN hsock : hsock[i] \in {"connecting", "open"} }

\* connect(): the sockets and wsRef.current it leaves
ConnectSockets ==
    IF wsRef # 0 /\ hsock[wsRef] = "open" THEN hsock
    ELSE IF ~shouldConnect THEN hsock
    ELSE Append(hsock, "connecting")

ConnectRef ==
    IF wsRef # 0 /\ hsock[wsRef] = "open" THEN wsRef
    ELSE IF ~shouldConnect THEN wsRef
    ELSE Len(hsock) + 1

\* ws.onopen
OnOpen(i) ==
    /\ hsock[i] = "connecting"
    /\ hsock' = [hsock EXCEPT ![i] = "open"]
    /\ reconnectAttempts' = 0
    /\ UNCHANGED <<wsRef, reconnectTimeoutRef, timers, timerSeq,
                   shouldConnect, manual>>
    /\ UNCHANGED <<connVars, pipeVars, retryVars, breakerVars, sessVars,
                   mainVars, attVars, codecVars>>

\* ws.onclose: the connection failed, was lost, or close() has completed
OnClose(i) ==
    /\ hsock[i] \in {"connecting", "open", "closing"}
    /\ hsock' = [hsock EXCEPT ![i] = "closed"]
    /\ wsRef' = 0
    /\ IF shouldConnect /\ reconnectAttempts < maxReconnectAttempts
       THEN /\ reconnectAttempts' = reconnectAttempts + 1
            /\ timerSeq' = timerSeq + 1
            /\ timers' = timers \cup {timerSeq + 1}
            /\ reconnectTimeoutRef' = timerSeq + 1
       ELSE UNCHANGED <<reconnectAttempts, timerSeq, timers,
                        reconnectTimeoutRef>>
    /\ UNCHANGED <<shouldConnect, manual>>
    /\ UNCHANGED <<connVars, pipeVars, retryVars, breakerVars, sessVars,
                   mainVars, attVars, codecVars>>

\* a timer set with setTimeout(connect, ...) fires
ReconnectTimerFires(t) ==
    /\ t \in timers
    /\ Len(hsock) < MaxSockets
    /\ timers' = timers \ {t}
    /\ UNCHANGED shouldConnect
    /\ hsock' = ConnectSockets
    /\ wsRef' = ConnectRef
    /\ UNCHANGED <<reconnectAttempts, reconnectTimeoutRef, timerSeq, manual>>
    /\ UNCHANGED <<connVars, pipeVars, retryVars, breakerVars, sessVars,
                   mainVars, attVars, codecVars>>

\* disconnect(): what it leaves of the timers and of the sockets
TimersAfterDisconnect ==
    IF reconnectTimeoutRef # 0 THEN timers \ {reconnectTimeoutRef} ELSE timers

SocketsAfterDisconnect ==
    IF wsRef # 0 /\ hsock[wsRef] \in {"connecting", "open"}
    THEN [hsock EXCEPT ![wsRef] = "closing"]
    ELSE hsock

\* the component calls disconnect(), or unmounts
Disconnect ==
    /\ manual < MaxManual
    /\ manual' = manual + 1
    /\ shouldConnect' = FALSE
    /\ timers' = TimersAfterDisconnect
    /\ reconnectTimeoutRef' = 0
    /\ hsock' = SocketsAfterDisconnect
    /\ wsRef' = 0
    /\ UNCHANGED <<reconnectAttempts, timerSeq>>
    /\ UNCHANGED <<connVars, pipeVars, retryVars, breakerVars, sessVars,
                   mainVars, attVars, codecVars>>

\* the component calls reconnect(): disconnect(), then a timer that is not
\* kept in reconnectTimeoutRef
Reconnect ==
    /\ manual < MaxManual
    /\ manual' = manual + 1
    /\ shouldConnect' = TRUE
    /\ reconnectAttempts' = 0
    /\ timerSeq' = timerSeq + 1
    /\ timers' = TimersAfterDisconnect \cup {timerSeq + 1}
    /\ reconnectTimeoutRef' = 0
    /\ hsock' = SocketsAfterDisconnect
    /\ wsRef' = 0
    /\ UNCHANGED <<connVars, pipeVars, retryVars, breakerVars, sessVars,
                   mainVars, attVars, codecVars>>

----------------------------------------------------------------------------
(* Specifications *)

InitConn(act) ==
    /\ active = act
    /\ pc = [c \in Connectors |-> "init"]
    /\ conn = [c \in Connectors |-> "none"]
    /\ nread = [c \in Connectors |-> 0]
    /\ lastPrices = [c \in Connectors |-> <<>>]
    /\ pending = [c \in Connectors |-> NoTick]
    /\ lastFrame = [c \in Connectors |-> NoFrame]
    /\ lastOut = [c \in Connectors |-> NoOutcome]
    /\ dupCount = [c \in Connectors |-> 0]
    /\ errCount = [c \in Connectors |-> 0]
    /\ run = [c \in Connectors |-> [id \in Contracts |-> NoRun]]
    /\ isConnected = [c \in Connectors |-> FALSE]
    /\ connGauge = [c \in Connectors |-> 0]
    /\ lastErr = [c \in Connectors |-> "none"]
    /\ subFailed = [c \in Connectors |-> FALSE]

InitPipe ==
    /\ msgChan = <<>>
    /\ stream = <<>>
    /\ topics = <<>>
    /\ pubErrs = 0
    /\ sentLog = <<>>
    /\ recvLog = <<>>

InitRetryIdle ==
    /\ rcfg = NoRetryConfig
    /\ rpc = "idle"
    /\ interval = 0
    /\ attempt = 0
    /\ waits = <<>>
    /\ cancelled = FALSE
    /\ failedBefore = 0

InitBreakerIdle ==
    /\ cbCfg = NoBreakerConfig
    /\ cb = NewCircuitBreaker
    /\ now = 0
    /\ cbLog = NoCall

InitSess ==
    /\ deadline = NoTime
    /\ nextPing = NoTime
    /\ pongAt = NoTime
    /\ unanswered = FALSE
    /\ hdr = [ts |-> NoTime]
    /\ dialed = [ts |-> NoTime, at |-> NoTime]

InitAttIdle ==
    /\ acon = "KALSHI"
    /\ catalog = <<>>
    /\ apc = "idle"
    /\ resolved = <<>>
    /\ subIdx = 0
    /\ subSent = <<>>
    /\ cur = 0
    /\ openT = {}
    /\ loopsOn = {}
    /\ aerr = "none"
    /\ fetchRes = "none"
    /\ nAtt = 0
    /\ aframes = 0
    /\ dials = 0

InitCodecIdle ==
    /\ tickIn = NoTick
    /\ wire = <<>>
    /\ tickOut = <<>>

InitHookIdle ==
    /\ hsock = <<>>
    /\ wsRef = 0
    /\ reconnectAttempts = 0
    /\ reconnectTimeoutRef = 0
    /\ timers = {}
    /\ timerSeq = 0
    /\ shouldConnect = FALSE
    /\ manual = 0

InitExt ==
    /\ InitAttIdle
    /\ InitCodecIdle
    /\ InitHookIdle

\* main has made the connectors and started the goroutines
InitMainRunning ==
    /\ proc = "running"
    /\ keyOk = TRUE

\* main.go: both channel connectors, the dispatch channel and processTicks
Init ==
    /\ InitConn(ChanConnectors)
    /\ InitPipe
    /\ InitRetryIdle
    /\ InitBreakerIdle
    /\ InitSess
    /\ InitExt
    /\ InitMainRunning

Next ==
    \/ \E c \in active : Start(c, PipeStartResults(c))
    \/ \E c \in active : ReadFrame(c, PipeFrames(c), MaxPipeFrames)
    \/ \E c \in active : ReadError(c)
    \/ \E c \in active : SendTick(c)
    \/ ProcessTicks

Spec == Init /\ [][Next]_vars

\* one connector of either generation reading frames of every shape
InitFrames ==
    /\ \E c \in Connectors : InitConn({c})
    /\ InitPipe
    /\ InitRetryIdle
    /\ InitBreakerIdle
    /\ InitSess
    /\ InitExt
    /\ InitMainRunning

NextFrames ==
    \/ \E c \in active : Start(c, StartResults(c))
    \/ \E c \in active : ReadFrame(c, Frames(c), MaxFrames)
    \/ \E c \in active : ReadError(c)
    \/ \E c \in active : SendTick(c)
    \/ ProcessTicks
    \/ \E c \in active : ConnectDirect(c, MaxFrames)
    \/ \E c \in active : ReadFrameDirect(c, Frames(c), MaxFrames)
    \/ \E c \in active : ReadErrorDirect(c, MaxFrames)

SpecFrames == InitFrames /\ [][NextFrames]_vars

\* RetryForever with a wrapped function that fails or succeeds at will
InitRetry ==
    /\ InitConn({})
    /\ InitPipe
    /\ rcfg \in {cfg \in RetryConfigs : cfg.initial <= cfg.max}
    /\ rpc = "check"
    /\ interval = rcfg.initial
    /\ attempt = 0
    /\ waits = <<>>
    /\ cancelled = FALSE
    /\ failedBefore = 0
    /\ InitBreakerIdle
    /\ InitSess
    /\ InitExt
    /\ InitMainRunning

NextRetry ==
    \/ RetryCheck
    \/ FnSucceeds
    \/ FnFails
    \/ TimerFires
    \/ WaitCancelled
    \/ Cancel

SpecRetry == InitRetry /\ [][NextRetry]_vars

\* RetryForever under cancellation, with the reconnect intervals 1 s and
\* 3 s; its goroutine keeps running: fn returns and timers fire
InitRetryFair ==
    /\ InitRetry
    /\ rcfg.initial = 8
    /\ rcfg.max = 24

SpecRetryFair == InitRetryFair /\ [][NextRetry]_vars /\ WF_vars(NextRetry)

\* a circuit breaker called by any number of goroutines while time passes
InitBreaker ==
    /\ InitConn({})
    /\ InitPipe
    /\ InitRetryIdle
    /\ cbCfg \in BreakerConfigs
    /\ cb = NewCircuitBreaker
    /\ now = 0
    /\ cbLog = NoCall
    /\ InitSess
    /\ InitExt
    /\ InitMainRunning

NextBreaker ==
    \/ Allow
    \/ RecordResult
    \/ ClockTick

SpecBreaker == InitBreaker /\ [][NextBreaker]_vars

\* one connector of part_007 or polymarket.go: sessions with keepalive,
\* read errors and reconnects while time passes, no data frame arriving
InitSession ==
    /\ \E c \in DirectConnectors : InitConn({c})
    /\ InitPipe
    /\ InitRetryIdle
    /\ InitBreakerIdle
    /\ InitSess
    /\ InitExt
    /\ InitMainRunning

NextSession ==
    \/ \E c \in active : ConnectDirect(c, MaxAttempts)
    \/ \E c \in active : ReadErrorDirect(c, MaxAttempts)
    \/ \E c \in active : PingTick(c)
    \/ \E c \in active : PongArrives(c)
    \/ \E c \in active : DeadlineExpires(c, MaxAttempts)
    \/ \E c \in active : Elapse(c)

SpecSession == InitSession /\ [][NextSession]_vars

\* main.go from the construction of the connectors to the end of the
\* process, the key file being usable or not
InitMain ==
    /\ InitConn({})
    /\ InitPipe
    /\ InitRetryIdle
    /\ InitBreakerIdle
    /\ InitSess
    /\ InitExt
    /\ proc = "starting"
    /\ keyOk \in BOOLEAN

NextMain ==
    \/ NewConnectors
    \/ Signal
    \/ GraceOver
    \/ Alive /\ \E c \in active : Start(c, PipeStartResults(c))
    \/ Alive /\ \E c \in active : ReadFrame(c, PipeFrames(c), MaxMainFrames)
    \/ Alive /\ \E c \in active : ReadError(c)
    \/ Alive /\ \E c \in active : SendTick(c)
    \/ Alive /\ ProcessTicks

SpecMain == InitMain /\ [][NextMain]_vars

\* one discovering connector and its connection attempts
InitAttempt ==
    /\ InitConn({})
    /\ InitPipe
    /\ InitRetryIdle
    /\ InitBreakerIdle
    /\ InitSess
    /\ InitMainRunning
    /\ InitCodecIdle
    /\ InitHookIdle
    /\ acon \in DiscoveringConnectors
    /\ catalog \in Catalogs
    /\ apc = FirstStep(acon)
    /\ resolved = <<>>
    /\ subIdx = 0
    /\ subSent = <<>>
    /\ cur = 0
    /\ openT = {}
    /\ loopsOn = {}
    /\ aerr = "none"
    /\ fetchRes = "none"
    /\ nAtt = 0
    /\ aframes = 0
    /\ dials = 0

NextAttemptStep ==
    \/ GetHeaders
    \/ DialTransport
    \/ FetchMarkets
    \/ SubscribeOne
    \/ StartReadLoop
    \/ ServeFrame
    \/ ReadLoopEnds
    \/ NextAttempt

SpecAttempt == InitAttempt /\ [][NextAttemptStep]_vars

\* one tick written by PublishTick and read back by GetLatestTicks
InitCodec ==
    /\ InitConn({})
    /\ InitPipe
    /\ InitRetryIdle
    /\ InitBreakerIdle
    /\ InitSess
    /\ InitMainRunning
    /\ InitAttIdle
    /\ InitHookIdle
    /\ tickIn \in TickInputs
    /\ wire = <<>>
    /\ tickOut = <<>>

NextCodec ==
    \/ PublishTick
    \/ GetLatestTicks

SpecCodec == InitCodec /\ [][NextCodec]_vars

\* polymarket.go Start: RetryForever around connect, with the reconnect
\* intervals 1 s and 3 s
InitReconnect ==
    /\ InitConn({})
    /\ InitPipe
    /\ rcfg \in {cfg \in RetryConfigs : cfg.initial = 8 /\ cfg.max = 24}
    /\ rpc = "check"
    /\ interval = rcfg.initial
    /\ attempt = 0
    /\ waits = <<>>
    /\ cancelled = FALSE
    /\ failedBefore = 0
    /\ InitBreakerIdle
    /\ InitSess
    /\ InitMainRunning
    /\ InitCodecIdle
    /\ InitHookIdle
    /\ acon = "POLY_DIRECT"
    /\ catalog \in {cat \in Catalogs : Len(cat) <= 1}
    /\ apc = "idle"
    /\ resolved = <<>>
    /\ subIdx = 0
    /\ subSent = <<>>
    /\ cur = 0
    /\ openT = {}
    /\ loopsOn = {}
    /\ aerr = "none"
    /\ fetchRes = "none"
    /\ nAtt = 0
    /\ aframes = 0
    /\ dials = 0

NextReconnect ==
    \/ RetryCheck
    \/ CallConnect
    \/ DialTransport
    \/ FetchMarkets
    \/ SubscribeOne
    \/ StartReadLoop
    \/ ServeFrame
    \/ ReadLoopEnds
    \/ ConnectReturnsError
    \/ TimerFires
    \/ WaitCancelled
    \/ Cancel

SpecReconnect == InitReconnect /\ [][NextReconnect]_vars

\* the hook after its mount effect: shouldConnectRef set, connect() called
InitHook ==
    /\ InitConn({})
    /\ InitPipe
    /\ InitRetryIdle
    /\ InitBreakerIdle
    /\ InitSess
    /\ InitMainRunning
    /\ InitAttIdle
    /\ InitCodecIdle
    /\ hsock = <<"connecting">>
    /\ wsRef = 1
    /\ reconnectAttempts = 0
    /\ reconnectTimeoutRef = 0
    /\ timers = {}
    /\ timerSeq = 0
    /\ shouldConnect = TRUE
    /\ manual = 0

NextHook ==
    \/ \E i \in DOMAIN hsock : OnOpen(i)
    \/ \E i \in DOMAIN hsock : OnClose(i)
    \/ \E t \in timers : ReconnectTimerFires(t)
    \/ Disconnect
    \/ Reconnect

SpecHook == InitHook /\ [][NextHook]_vars

----------------------------------------------------------------------------
(* Properties of the channel pipeline (Spec) *)

NoRepeats(log) ==
    \A i, j \in 1 .. Len(log) : i # j => log[i] # log[j]

\* C1: every tick sent into the dispatch channel is received by
\* processTicks exactly once, none is dropped or delivered twice, and the
\* buffer never holds more than its capacity
ExactlyOnceDelivery ==
    /\ sentLog = recvLog \o msgChan
    /\ NoRepeats(sentLog)
    /\ NoRepeats(recvLog)
    /\ Len(msgChan) <= ChanCap

\* ticks of both connectors have been sent, one has been received, the
\* buffer is full and a further send waits
ExactlyOnceWitness ==
    /\ Len(msgChan) = ChanCap
    /\ \E c \in ChanConnectors : pc[c] = "send"
    /\ Len(recvLog) > 0
    /\ \E i, j \in 1 .. Len(sentLog) : sentLog[i].conn # sentLog[j].conn

\* C2: while the channel is full a connector with a tick to send stays in
\* its send, keeps the tick and reads no further frame; it never reads
\* while sending, the send can proceed as soon as there is room, and when
\* it leaves the send the tick is at the tail of the channel
BlockedSendKeepsTick ==
    /\ [](\A c \in ChanConnectors :
            (pc[c] = "send" /\ Len(msgChan) < ChanCap) => ENABLED SendTick(c))
    /\ [][\A c \in ChanConnectors :
            pc[c] = "send" =>
              /\ nread'[c] = nread[c]
              /\ lastPrices'[c] = lastPrices[c]
              /\ Len(msgChan) = ChanCap =>
                    pc'[c] = "send" /\ pending'[c] = pending[c]
              /\ pc'[c] # "send" =>
                    /\ msgChan' = Append(msgChan, pending[c])
                    /\ pc'[c] = "read"]_vars

\* a connector is blocked in its send on a full channel after the
\* consumer has already taken a tick
BlockedSendWitness ==
    /\ Len(msgChan) = ChanCap
    /\ pc["KALSHI"] = "send"
    /\ pending["KALSHI"] \notin {msgChan[i] : i \in 1 .. Len(msgChan)}
    /\ Len(recvLog) > 0

SameOrigin(a, b) == a.conn = b.conn /\ a.contract = b.contract

InReadOrder(log) ==
    \A i, j \in 1 .. Len(log) :
        (i < j /\ SameOrigin(log[i], log[j])) => log[i].seq < log[j].seq

\* C8: the ticks of one connector and contract pass the channel, reach
\* processTicks and are appended to the stream in the order in which
\* their frames were read
OrderPreserved ==
    /\ InReadOrder(msgChan)
    /\ InReadOrder(recvLog)
    /\ InReadOrder(stream)
    /\ InReadOrder([i \in 1 .. Len(topics) |-> topics[i].data])

\* two ticks of one connector and contract are in the stream
OrderWitness ==
    \E i, j \in 1 .. Len(stream) :
        i < j /\ SameOrigin(stream[i], stream[j])

----------------------------------------------------------------------------
(* Properties of frame processing (SpecFrames) *)

\* the frame is one the connector derives a price from and names a contract
Recognised(c, f) ==
    /\ f.valid
    /\ IF IsKalshi(c)
       THEN f.type = KalshiType(c) /\ (c = "KALSHI" => f.msg) /\ f.id # ""
       ELSE /\ f.type \in {"price_update", "book_update", "trade"}
            /\ \/ f.id # ""
               \/ f.id2 # "" /\ (c = "POLYMARKET" \/ f.type # "trade")

Processed(c) == lastOut[c].kind # "none"

\* C3: of the consecutive frames of one contract that resolve to the same
\* price exactly one emits a Tick, and a frame whose price differs from the
\* cached one updates the cache and emits
OneTickPerRun ==
    \A c \in Connectors :
        /\ \A id \in Contracts : run[c][id].len >= 1 => run[c][id].emits = 1
        /\ (lastOut[c].kind \in {"dup", "emit"} /\ ~lastOut[c].wasCached) =>
              /\ lastOut[c].kind = "emit"
              /\ Cached(lastPrices[c], lastOut[c].id, lastOut[c].price)

\* C4: every frame suppressed by deduplication increments the duplicate
\* counter once and no other frame does, so a run of N frames of equal
\* price has raised it by N - 1
DuplicatesCounted ==
    \A c \in Connectors :
        /\ \A id \in Contracts :
              run[c][id].len >= 1 => run[c][id].dups = run[c][id].len - 1
        /\ lastOut[c].dups = (IF lastOut[c].kind = "dup" THEN 1 ELSE 0)

\* C5: a Kalshi frame with exactly one of yes_bid / yes_ask resolves to
\* that side, with or without a last price; the last price is used only
\* when neither side is present
SingleSideBeforeLast ==
    \A c \in {"KALSHI", "KALSHI_DIRECT"} :
        LET f == lastFrame[c] IN
        (Processed(c) /\ Recognised(c, f)) =>
            /\ (f.bid > 0 /\ f.ask = 0) =>
                  lastOut[c].kind \in {"dup", "emit"} /\ lastOut[c].price = 2 * f.bid
            /\ (f.bid = 0 /\ f.ask > 0) =>
                  lastOut[c].kind \in {"dup", "emit"} /\ lastOut[c].price = 2 * f.ask
            /\ (f.bid = 0 /\ f.ask = 0 /\ f.price > 0) =>
                  lastOut[c].kind \in {"dup", "emit"} /\ lastOut[c].price = 2 * f.price

\* C6: a Kalshi frame with yes_bid and yes_ask both in 1..99 resolves to
\* (yes_bid + yes_ask) / 200, which lies in [0, 1]
MidPriceOfBothSides ==
    \A c \in {"KALSHI", "KALSHI_DIRECT"} :
        LET f == lastFrame[c] IN
        (Processed(c) /\ Recognised(c, f)
            /\ f.bid \in 1 .. 99 /\ f.ask \in 1 .. 99) =>
            /\ lastOut[c].kind \in {"dup", "emit"}
            /\ lastOut[c].price = f.bid + f.ask
            /\ lastOut[c].price >= 0
            /\ lastOut[c].price <= PriceScale

\* yes_bid = 40, yes_ask = 42 was emitted as 0.41 = 82 / 200
MidPriceWitness ==
    /\ lastFrame["KALSHI"].bid = 40
    /\ lastFrame["KALSHI"].ask = 42
    /\ lastFrame["KALSHI"].price = 41
    /\ lastOut["KALSHI"].kind = "emit"
    /\ lastOut["KALSHI"].price = 82
    /\ pending["KALSHI"].price = 82

\* the frame carries no bid, ask, last or trade price
NoUsablePrice(f) ==
    f.bid = 0 /\ f.ask = 0 /\ f.price = 0 /\ f.mid = 0

\* C7: a recognised price frame without a usable price is dropped: no
\* Tick, no error counted, the last-price cache unchanged
PricelessFrameDropped ==
    \A c \in Connectors :
        (Processed(c) /\ Recognised(c, lastFrame[c])
            /\ NoUsablePrice(lastFrame[c])) =>
            /\ lastOut[c].kind = "ignored"
            /\ lastOut[c].errs = 0
            /\ ~lastOut[c].cacheChanged

----------------------------------------------------------------------------
(* Properties of RetryForever (SpecRetry) *)

RECURSIVE Pow(_, _)
Pow(m, n) == IF n = 0 THEN 1 ELSE m * Pow(m, n - 1)

\* min(I * M^n, X) for the n-th wait, n counted from 0
Nominal(cfg, n) == Min(cfg.initial * Pow(cfg.mult, n), cfg.max)

WaitsWithinJitterBound ==
    rcfg.jitter =>
        \A n \in 1 .. Len(waits) :
            /\ 4 * (waits[n] - Nominal(rcfg, n - 1)) <= Nominal(rcfg, n - 1)
            /\ 4 * (Nominal(rcfg, n - 1) - waits[n]) <= Nominal(rcfg, n - 1)

\* C11: a success of fn resets the interval to InitialInterval and the
\* loop calls fn again without a wait; the first wait after a success is
\* InitialInterval, whatever number of failures preceded the success
ResetAfterSuccess ==
    /\ [](/\ (Len(waits) = 0 /\ rpc \in {"check", "call"}) =>
                (interval = rcfg.initial /\ attempt = 0)
          /\ Len(waits) >= 1 => waits[1] = rcfg.initial)
    /\ [][/\ (rpc = "call" /\ rpc' \notin {"call", "wait"}) =>
                (rpc' = "check" /\ interval' = rcfg.initial /\ attempt' = 0)
          /\ (rpc = "check" /\ ~cancelled /\ rpc' # "check") => rpc' = "call"
         ]_vars

\* I = 1 s, M = 2: three failures, a success, and the wait after the next
\* failure is 1 s again
ResetWitness ==
    /\ rcfg.initial = 8 /\ rcfg.mult = 2 /\ rcfg.max = 80
    /\ failedBefore = 3
    /\ waits = <<8>>
    /\ rpc = "wait"

\* C12: once ctx is cancelled fn is not called again; a backoff wait can
\* end at once, and RetryForever returns after at most the call of fn that
\* was running
ExitsOnCancel ==
    /\ []((cancelled /\ rpc = "wait") => ENABLED WaitCancelled)
    /\ [][(cancelled /\ rpc # "call") => rpc' # "call"]_vars
    /\ [][rpc = "done" => rpc' = "done"]_vars
    /\ (cancelled ~> rpc = "done")

\* RetryForever returned out of its second backoff wait
ExitsOnCancelWitness ==
    /\ cancelled
    /\ rpc = "done"
    /\ Len(waits) = 2
    /\ attempt = 1

\* C13: with MaxRetries = N > 0 RetryForever gives up after N failed
\* retries, that is after at most N + 1 failures of fn in a row
GivesUpAfterMaxRetries ==
    rcfg.maxRetries > 0 => Len(waits) <= rcfg.maxRetries + 1

----------------------------------------------------------------------------
(* Properties of the circuit breaker (SpecBreaker) *)

\* C14: with fewer than threshold failures in a row since construction
\* the breaker is Closed and Allow returns true; the failure that makes
\* threshold in a row opens it; in Open, Allow returns false unless more
\* than timeout has elapsed since the last recorded failure
OpensAtThreshold ==
    /\ cbLog.longest < cbCfg.threshold =>
          (cb.state = "CLOSED" /\ (cbLog.op = "allow" => cbLog.val))
    /\ (cbLog.op = "record" /\ ~cbLog.val /\ cbLog.pre = "CLOSED"
          /\ cbLog.streak = cbCfg.threshold) =>
          (cb.state = "OPEN" /\ cb.lastFail = cbLog.failAt)
    /\ (cbLog.op = "allow" /\ cbLog.pre = "OPEN") => (cbLog.val <=> cbLog.due)
    /\ (cb.state = "OPEN" /\ cbLog.op = "allow") => ~cbLog.val

\* threshold 2, timeout 2: opened at time 1 by the second failure, and
\* Allow has just returned false at time 3
OpensAtThresholdWitness ==
    /\ cbCfg = [threshold |-> 2, timeout |-> 2]
    /\ cb = [state |-> "OPEN", failures |-> 2, lastFail |-> 1]
    /\ cbLog.longest = 2
    /\ cbLog.op = "allow" /\ ~cbLog.val
    /\ now = 3

\* C15: in Open with the timeout elapsed the first Allow moves to HalfOpen
\* and returns true, and every Allow in HalfOpen returns false
OneTrialInHalfOpen ==
    /\ (cbLog.op = "allow" /\ cbLog.pre = "OPEN" /\ cbLog.due) =>
          (cbLog.val /\ cb.state = "HALF_OPEN")
    /\ (cbLog.op = "allow" /\ cbLog.pre = "HALF_OPEN") => ~cbLog.val

\* C16: RecordResult(true) in HalfOpen gives Closed with failure count 0,
\* and the circuit opens again only by threshold failures in a row
ClosesAfterGoodTrial ==
    /\ (cbLog.op = "record" /\ cbLog.val /\ cbLog.pre = "HALF_OPEN") =>
          (cb.state = "CLOSED" /\ cb.failures = 0)
    /\ (cbLog.op = "record" /\ ~cbLog.val /\ cbLog.pre = "CLOSED"
          /\ cb.state = "OPEN") => cbLog.streak >= cbCfg.threshold

\* threshold 3: opened, closed by a good trial, then two more failures
\* leave the circuit Closed
ClosesAfterGoodTrialWitness ==
    /\ cbCfg.threshold = 3
    /\ cbLog.longest >= 3
    /\ cb.state = "CLOSED"
    /\ cb.failures = 2
    /\ cbLog.streak = 2

\* C17: RecordResult(false) in HalfOpen gives Open with the timeout
\* restarted: until more than timeout has elapsed since that failure the
\* breaker stays Open and Allow returns false
ReopensAfterBadTrial ==
    (cbLog.failPre = "HALF_OPEN" /\ now - cbLog.failAt <= cbCfg.timeout) =>
        /\ cb.state = "OPEN"
        /\ cb.lastFail = cbLog.failAt
        /\ cbLog.op = "allow" => ~cbLog.val

\* timeout 1: the trial failed at time 2 and Allow has just returned false
\* at time 3
ReopensAfterBadTrialWitness ==
    /\ cbCfg.timeout = 1
    /\ cbLog.failPre = "HALF_OPEN"
    /\ cbLog.failAt = 2
    /\ now = 3
    /\ cbLog.op = "allow" /\ ~cbLog.val

\* C18: in Closed the failure count is the number of failures recorded
\* since the last success, and a breaker that never saw threshold failures
\* in a row is Closed
OnlyConsecutiveFailuresOpen ==
    /\ cb.state = "CLOSED" => cb.failures = cbLog.streak
    /\ cb.state # "CLOSED" => cbLog.longest >= cbCfg.threshold

\* threshold 3: failures with successes in between, more failures recorded
\* in total than the threshold, still Closed
OnlyConsecutiveWitness ==
    /\ cbCfg.threshold = 3
    /\ cbLog.longest = 2
    /\ cbLog.streak = 2
    /\ cbLog.op = "record" /\ ~cbLog.val
    /\ cb.state = "CLOSED"
    /\ now >= 1

----------------------------------------------------------------------------
(* Lifetime of a connector (SpecFrames) *)

\* Start of kalshi.go and part_008 is  return k.connect() : it has returned
\* once connect has, with an error or after  go k.readLoop() .  Start of
\* part_007 and polymarket.go returns when RetryForever does.
StartReturned(c) ==
    IF c \in ChanConnectors THEN pc[c] # "init" ELSE rpc = "done"

\* C19: while a connector's session is up and frames flow, its Start has
\* not returned
StartRunsUntilCancelled ==
    \A c \in active :
        (conn[c] = "open" /\ pc[c] \in {"read", "send"}) => ~StartReturned(c)

\* C20: a connector that has no session after a dial failure or a read
\* error can make a new connection attempt
ReconnectsAfterError ==
    \A c \in active :
        pc[c] \notin {"read", "send"} =>
            ENABLED (Start(c, StartResults(c)) \/ ConnectDirect(c, MaxFrames))

----------------------------------------------------------------------------
(* Connection status and subscription (SpecFrames) *)

\* C21: from an error return of connect until the next successful connect
\* IsConnected() is false and the connection gauge is 0
StatusDownAfterError ==
    \A c \in active \cap DirectConnectors :
        (pc[c] = "init" /\ lastErr[c] # "none") =>
            (~isConnected[c] /\ connGauge[c] = 0)

\* C22: when a subscribe command could not be written the attempt returns
\* an error and its read loop is not entered
SubscribeFailureFailsAttempt ==
    \A c \in active :
        subFailed[c] => (pc[c] \notin {"read", "send"} /\ lastErr[c] # "none")

----------------------------------------------------------------------------
(* Keepalive and signed headers (SpecSession) *)

\* C25: while every ping of a session was answered its read deadline lies
\* ahead, so a read timeout ends only sessions with an unanswered ping; a
\* session whose deadline is reached ends with a read error that is
\* counted and returned to the retry controller
IdleSessionStaysUp ==
    \A c \in active :
        /\ (pc[c] = "read" /\ ~unanswered) => now < deadline
        /\ lastErr[c] = "read_timeout" =>
              (unanswered /\ pc[c] = "init" /\ conn[c] = "closed"
                 /\ errCount[c] >= 1 /\ ~isConnected[c])
        /\ (pc[c] = "read" /\ now >= deadline /\ errCount[c] < MaxAttempts) =>
              ENABLED DeadlineExpires(c, MaxAttempts)

\* connected at time 0, no frame and no error for 100 s, the third pong
\* moved the deadline to 150 s
IdleSessionWitness ==
    /\ active = {"POLY_DIRECT"}
    /\ pc["POLY_DIRECT"] = "read"
    /\ errCount["POLY_DIRECT"] = 0
    /\ ~unanswered
    /\ now = 10
    /\ deadline = 15

\* C30: the headers given to a Dial were generated in the same attempt,
\* with the timestamp of that attempt
FreshHeaders ==
    dialed.at # NoTime => (dialed.ts = dialed.at /\ hdr.ts = dialed.ts)

\* part_007: a failed attempt at time 0 and a successful dial at 70 s with
\* headers stamped 70 s
FreshHeadersWitness ==
    /\ active = {"KALSHI_DIRECT"}
    /\ errCount["KALSHI_DIRECT"] >= 1
    /\ pc["KALSHI_DIRECT"] = "read"
    /\ dialed = [ts |-> 7, at |-> 7]

----------------------------------------------------------------------------
(* Bad frames and the publisher (SpecFrames, Spec) *)

\* valid JSON whose type the connector does not handle
UnknownType(c, f) ==
    /\ f.valid
    /\ IF IsKalshi(c) THEN f.type # KalshiType(c)
       ELSE f.type \notin {"price_update", "book_update", "trade"}

\* C23: a frame that is not JSON, lacks its contract identifier or has a
\* type the connector does not handle emits no Tick and leaves the cache,
\* the stream and the session as they were, the read loop staying in its
\* loop; a frame of an unhandled type counts no error
BadFrameSkipped ==
    [][\A c \in active :
         (nread'[c] = nread[c] + 1 /\ ~Recognised(c, lastFrame'[c])) =>
            /\ lastOut'[c].kind = "ignored"
            /\ lastPrices'[c] = lastPrices[c]
            /\ pc'[c] = "read"
            /\ conn'[c] = "open"
            /\ pending'[c] = NoTick
            /\ msgChan' = msgChan /\ stream' = stream /\ topics' = topics
            /\ UnknownType(c, lastFrame'[c]) => errCount'[c] = errCount[c]
      ]_vars

\* a price was cached by the first frame, the second frame is not JSON and
\* the read loop is still reading
BadFrameWitness ==
    \E c \in active :
        /\ nread[c] = 2
        /\ ~lastFrame[c].valid
        /\ lastOut[c].kind = "ignored"
        /\ lastPrices[c] # <<>>
        /\ pc[c] = "read"

\* C26: every stream entry and every topic message is a Tick that passes
\* Validate; a Tick that fails it is neither appended nor published
OnlyValidTicksPublished ==
    /\ \A i \in 1 .. Len(stream) : Validate(stream[i])
    /\ \A i \in 1 .. Len(topics) : Validate(topics[i].data)
    /\ \A i \in 1 .. Len(recvLog) :
          ~Validate(recvLog[i]) =>
              /\ \A j \in 1 .. Len(stream) : stream[j] # recvLog[i]
              /\ \A j \in 1 .. Len(topics) : topics[j].data # recvLog[i]

\* a Tick of price 1.10 reached PublishTick, from the channel or from
\* polymarket.go, and nothing was written
InvalidTickWitness ==
    /\ stream = <<>> /\ topics = <<>>
    /\ \/ \E i \in 1 .. Len(recvLog) : recvLog[i].price > PriceScale
       \/ /\ lastOut["POLY_DIRECT"].kind = "emit"
          /\ lastOut["POLY_DIRECT"].price > PriceScale
          /\ ~lastOut["POLY_DIRECT"].published

\* C27: the n-th stream entry and the n-th topic message carry the same
\* Tick, written once, the message on the topic "tick:" + contract_id;
\* equal contracts share a topic and different contracts do not
StreamAndTopicPaired ==
    /\ Len(stream) = Len(topics)
    /\ NoRepeats(stream)
    /\ \A i \in 1 .. Len(stream) :
          /\ topics[i].data = stream[i]
          /\ topics[i].topic = <<"tick:", stream[i].contract>>
    /\ \A i, j \in 1 .. Len(topics) :
          (topics[i].topic = topics[j].topic) <=>
              (topics[i].data.contract = topics[j].data.contract)

\* ticks of two contracts were published
StreamAndTopicWitness ==
    /\ Len(stream) = 2
    /\ stream[1].contract = "M1"
    /\ stream[2].contract = "M2"
    /\ topics[2].topic = <<"tick:", "M2">>

\* the elements of sub appear in log in the same order
RECURSIVE IsSubSeq(_, _)
IsSubSeq(sub, log) ==
    IF sub = <<>> THEN TRUE
    ELSE IF log = <<>> THEN FALSE
    ELSE IF Head(sub) = Head(log) THEN IsSubSeq(Tail(sub), Tail(log))
    ELSE IsSubSeq(sub, Tail(log))

\* C28: a tick whose publish fails is counted as an error and dropped, it
\* alone: it is neither written later nor kept, the ticks behind it stay
\* in the channel, and processTicks goes on receiving
PublishErrorDropsOneTick ==
    /\ [](/\ Len(recvLog) = Len(stream) + pubErrs
          /\ IsSubSeq(stream, recvLog)
          /\ Len(msgChan) > 0 => ENABLED ProcessTicks)
    /\ [][pubErrs' # pubErrs =>
            /\ pubErrs' = pubErrs + 1
            /\ msgChan' = Tail(msgChan)
            /\ recvLog' = Append(recvLog, Head(msgChan))
            /\ stream' = stream
            /\ topics' = topics
            /\ sentLog' = sentLog
         ]_vars

\* the publish of one tick failed and a tick received after it is in the
\* stream
PublishErrorWitness ==
    /\ pubErrs = 1
    /\ Len(recvLog) >= 2
    /\ Len(stream) >= 1
    /\ stream[Len(stream)] = recvLog[Len(recvLog)]
    /\ stream[1] # recvLog[1]

----------------------------------------------------------------------------
(* Startup and shutdown of main (SpecMain) *)

\* C24: when main has returned after the shutdown signal, no connector is
\* in its read loop or in a channel send and no transport is open
ShutdownUnwinds ==
    (proc = "exited" /\ keyOk) =>
        \A c \in active :
            pc[c] \notin {"read", "send"} /\ conn[c] # "open"

\* C29: with a key file that cannot be loaded the process ends in
\* NewKalshiConnector: no connector dials, reads or sends and nothing is
\* published
KeyErrorIsFatal ==
    ~keyOk =>
        /\ proc \in {"starting", "exited"}
        /\ active = {}
        /\ \A c \in Connectors : pc[c] = "init" /\ conn[c] = "none"
        /\ dialed.at = NoTime
        /\ sentLog = <<>> /\ stream = <<>> /\ topics = <<>>

\* the key file was unusable and the process has exited
KeyErrorWitness ==
    /\ ~keyOk
    /\ proc = "exited"

----------------------------------------------------------------------------
(* Discovery and the steps of an attempt *)

Range(s) == { s[i] : i \in DOMAIN s }

ResolutionFailed ==
    \/ fetchRes = "fail"
    \/ fetchRes = "ok" /\ fetchActiveMarkets(acon, catalog) = <<>>

OneTransportOneLoop ==
    /\ Cardinality(openT) <= 1
    /\ Cardinality(loopsOn) <= 1
    /\ loopsOn \subseteq openT
    /\ (acon \in DirectConnectors /\ apc = "dial") => openT = {}

OneTransportWitness ==
    /\ nAtt >= 1
    /\ apc = "read"
    /\ aframes >= 1

----------------------------------------------------------------------------
(* The tick on the wire *)

\* C32: the tick GetLatestTicks decodes from a stream entry equals, field
\* for field, the tick PublishTick encoded into it, with every optional
\* field set as well as with optional fields left at zero
RoundTrip == tickOut # <<>> => tickOut[1] = tickIn

RoundTripWitness ==
    /\ tickOut # <<>>
    /\ Len(wire) = Len(TickFields)
    /\ \A k \in OptionalKeys : tickOut[1][k] # Zero(FieldAt(k)[2])

\* a tick without optional fields went over the wire as its five required
\* fields and came back
OmittedFieldsWitness ==
    /\ tickOut # <<>>
    /\ Len(wire) = 5
    /\ tickIn["ts_source"] = 0

----------------------------------------------------------------------------
(* Reconnection, the cache after a failed publish, the breaker's counters *)

\* C33: the failed attempts of RetryForever are recorded in a circuit
\* breaker, and no attempt is made while that breaker is open
AttemptsGatedByBreaker ==
    /\ cb.failures = Len(waits)
    /\ cb.state = "OPEN" => rpc # "call"

\* C36: a price a direct connector failed to publish is not in its
\* last-price cache afterwards
CacheHoldsOnlyEmitted ==
    \A c \in active \cap DirectConnectors :
        (lastOut[c].kind = "emit" /\ ~lastOut[c].published) =>
            ~Cached(lastPrices[c], lastOut[c].id, lastOut[c].price)

\* C38: with InitialInterval <= MaxInterval, InitialInterval > 0 and
\* Multiplier >= 1 every wait is positive and at most MaxInterval, with or
\* without jitter
NoWaitExceedsMax ==
    \A n \in 1 .. Len(waits) : waits[n] > 0 /\ waits[n] <= rcfg.max

\* C39: a Closed breaker has counted fewer failures than the threshold, an
\* Open or HalfOpen one at least the threshold, and RecordResult(true) on
\* an Open breaker changes none of its fields
BreakerCountAgrees ==
    /\ [](/\ cb.state = "CLOSED" => cb.failures < cbCfg.threshold
          /\ cb.state \in {"OPEN", "HALF_OPEN"} =>
                cb.failures >= cbCfg.threshold)
    /\ [][(cb.state = "OPEN" /\ cbLog'.op = "record" /\ cbLog'.val)
            => cb' = cb]_vars

BreakerCountWitness ==
    /\ cbLog.op = "record"
    /\ cbLog.val
    /\ cbLog.pre = "OPEN"
    /\ cb.state = "OPEN"
    /\ cb.failures > cbCfg.threshold

\* C37: after a session that served frames and ended with a read error,
\* RetryForever waits InitialInterval before it reconnects
ServedSessionResetsBackoff ==
    (rpc = "wait" /\ aerr = "read_err" /\ aframes >= 1) =>
        waits[Len(waits)] = rcfg.initial

----------------------------------------------------------------------------
(* The useWebSocket hook *)

\* C40: the hook never has more than one WebSocket connecting or open, nor
\* more than one reconnect timer pending
AtMostOneSocket ==
    /\ Cardinality(LiveSockets) <= 1
    /\ Cardinality(timers) <= 1

====
